---- MODULE Spec2Model ----
(***************************************************************************)
(* Coverage aggregation and trend tracking (TestCoverageAnalyzer) and the  *)
(* HTTP layer that drives it (app/api/endpoints/coverage.py).              *)
(*                                                                         *)
(* Percentages are held in hundredths of a percent (70.04 is 7004), so     *)
(* that round(x, 2) is a rounding to an integer.  Means are exact          *)
(* fractions [num, den] of such integers.  A time is a count of clock      *)
(* ticks, TicksPerSecond of them to the second.                            *)
(***************************************************************************)
EXTENDS Integers, Sequences, FiniteSets, TLC

\* ---------------------------------------------------------------- bounds

\* Operations (analysis requests and summary requests) started in one run.
MaxRuns == 2

\* Longest history the trend-tracker specification builds.
MaxHist == 12

\* Background tasks that may be scheduled and not yet run.
MaxPending == 2

\* Clock ticks in one second of the report identifier's timestamp.
TicksPerSecond == 2

\* Most lines of a source text the complexity specification scores.
MaxLines == 3

\* The history keeps the last HistoryCap data points.
HistoryCap == 100

\* Files below this line coverage (80 percent) count as low coverage.
LowCoverage == 8000

\* Width of the two trend windows.
Window == 5

\* ------------------------------------------------------- Python helpers

Max(a, b) == IF a > b THEN a ELSE b

Min(a, b) == IF a < b THEN a ELSE b

Abs(a) == IF a < 0 THEN -a ELSE a

\* An index of a slice s[lo:hi] of a sequence of length n, as Python
\* resolves it: a negative index counts from the end, and both ends clamp.
ClampIdx(i, n) == IF i < 0 THEN Max(i + n, 0) ELSE Min(i, n)

\* s[lo:hi]; an open end is given as 0 (start) or Len(s) (stop).
PySlice(s, lo, hi) ==
  LET n == Len(s)
      a == ClampIdx(lo, n)
      b == ClampIdx(hi, n)
  IN  IF a < b THEN SubSeq(s, a + 1, b) ELSE << >>

\* round(num / den) to the nearest integer, den > 0; an exact tie goes to
\* the even neighbour.
RoundDiv(num, den) ==
  LET q == num \div den
      r == num % den
  IN  IF 2 * r < den THEN q
      ELSE IF 2 * r > den THEN q + 1
      ELSE IF q % 2 = 0 THEN q ELSE q + 1

\* The empty dict {}.
EmptyDict == [k \in {} |-> k]

\* None.
None == [none |-> TRUE]

\* No exception: the call returned.
NoExc == ""

ReraiseInner(exc) == exc

\* try: ... except Exception as e: raise RuntimeError(f"...: {e}"): the
\* exception that leaves the method when exc was raised inside it.
Reraise(exc) == IF exc = NoExc THEN NoExc ELSE "RuntimeError"

\* The working directory of the process.
Cwd == <<"srv", "app">>

\* An output path: anchored at the root, or relative.
RelativePath(parts) == [anchored |-> FALSE, parts |-> parts]

AnchoredPath(parts) == [anchored |-> TRUE, parts |-> parts]

AbsoluteUnchanged(path) == path

\* Path(output_path).absolute(): the path itself when it is anchored,
\* else the working directory joined with it.
Absolute(path) ==
  IF path.anchored THEN path ELSE AnchoredPath(Cwd \o path.parts)

\* The output_path values the report generators are given: the default
\* of generate_html_report, the default of generate_json_report, and an
\* absolute path.
HtmlOutputPaths == {RelativePath(<<"coverage_report.html">>), AnchoredPath(<<"tmp", "out">>)}

JsonOutputPaths == {RelativePath(<<"coverage_report.json">>), AnchoredPath(<<"tmp", "out">>)}

RECURSIVE SumLineCoverage(_)
\* sum(point["line_coverage"] for point in points)
SumLineCoverage(points) ==
  IF points = << >> THEN 0
  ELSE points[1].line_coverage + SumLineCoverage(Tail(points))

\* ------------------------------------------------------- trend tracker

\* recent = history[-5:]
RecentWindow(history) == PySlice(history, -Window, Len(history))

OlderWindowAllBefore(history) == PySlice(history, 0, -Window)

OlderWindowOffByOne(history) == PySlice(history, 0, -(Window - 1))

\* older = history[-10:-5] if len(history) >= 10 else history[:-5]
OlderWindow(history) ==
  IF Len(history) >= 2 * Window
  THEN PySlice(history, -2 * Window, -Window)
  ELSE PySlice(history, 0, -Window)

\* The mean of the window's line_coverage, as an exact fraction.
WindowAverage(points) ==
  [num |-> SumLineCoverage(points), den |-> Len(points)]

TrendLabelNeverStable(recent_avg, older_avg) ==
  IF recent_avg.num * older_avg.den >= older_avg.num * recent_avg.den
  THEN "improving"
  ELSE "declining"

TrendLabelOfRounded(recent_avg, older_avg) ==
  LET change == RoundDiv(recent_avg.num * older_avg.den
                           - older_avg.num * recent_avg.den,
                         recent_avg.den * older_avg.den)
  IN  IF change > 0 THEN "improving"
      ELSE IF change < 0 THEN "declining"
      ELSE "stable"

\* "improving" if recent_avg > older_avg else "declining" if
\* recent_avg < older_avg else "stable"
TrendLabel(recent_avg, older_avg) ==
  LET lhs == recent_avg.num * older_avg.den
      rhs == older_avg.num * recent_avg.den
  IN  IF lhs > rhs THEN "improving"
      ELSE IF lhs < rhs THEN "declining"
      ELSE "stable"

TrendChangeOfRounded(recent_avg, older_avg) ==
  RoundDiv(recent_avg.num, recent_avg.den) - RoundDiv(older_avg.num, older_avg.den)

\* round(recent_avg - older_avg, 2)
TrendChange(recent_avg, older_avg) ==
  RoundDiv(recent_avg.num * older_avg.den - older_avg.num * recent_avg.den,
           recent_avg.den * older_avg.den)

\* _calculate_trends(history)
_calculate_trends(history) ==
  IF Len(history) < 2 THEN EmptyDict
  ELSE LET recent == RecentWindow(history)
           older == OlderWindow(history)
       IN  IF older = << >> THEN EmptyDict
           ELSE LET recent_avg == WindowAverage(recent)
                    older_avg == WindowAverage(older)
                IN  [trend |-> TrendLabel(recent_avg, older_avg),
                     change_percentage |-> TrendChange(recent_avg, older_avg),
                     recent_average |-> RoundDiv(recent_avg.num, recent_avg.den),
                     previous_average |-> RoundDiv(older_avg.num, older_avg.den)]

\* ---------------------------------------------------- complexity score

\* A text is a sequence of characters; this one is '\n'.
NewLine == "\n"

\* A source file as open(filename, 'r', encoding='utf-8') finds it: it
\* cannot be read (missing, no permission, not UTF-8), or it has a text.
Unreadable == [readable |-> FALSE, text |-> << >>]

SourceText(text) == [readable |-> TRUE, text |-> text]

\* complexity_indicators
complexity_indicators ==
  << <<"i", "f", " ">>,
     <<"e", "l", "i", "f", " ">>,
     <<"e", "l", "s", "e", ":">>,
     <<"f", "o", "r", " ">>,
     <<"w", "h", "i", "l", "e", " ">>,
     <<"t", "r", "y", ":">>,
     <<"e", "x", "c", "e", "p", "t", ":">>,
     <<"d", "e", "f", " ">>,
     <<"c", "l", "a", "s", "s", " ">>,
     <<"l", "a", "m", "b", "d", "a", " ">>,
     <<"w", "i", "t", "h", " ">> >>

RECURSIVE PySplit(_, _)
\* text.split(sep) for a separator of one character: the pieces between
\* the separators, so one piece more than there are separators.
PySplit(text, sep) ==
  IF \A i \in 1..Len(text) : text[i] # sep THEN <<text>>
  ELSE LET k == CHOOSE i \in 1..Len(text) :
                  text[i] = sep /\ \A j \in 1..(i - 1) : text[j] # sep
       IN  <<SubSeq(text, 1, k - 1)>>
             \o PySplit(SubSeq(text, k + 1, Len(text)), sep)

PyCountAtMostOnce(text, sub) ==
  IF \E i \in 1..(Len(text) - Len(sub) + 1) :
       SubSeq(text, i, i + Len(sub) - 1) = sub
  THEN 1 ELSE 0

RECURSIVE PyCount(_, _)
\* text.count(sub): the occurrences of sub found from left to right, the
\* search going on after the end of each one.
PyCount(text, sub) ==
  IF Len(text) < Len(sub) THEN 0
  ELSE IF SubSeq(text, 1, Len(sub)) = sub
       THEN 1 + PyCount(SubSeq(text, Len(sub) + 1, Len(text)), sub)
       ELSE PyCount(Tail(text), sub)

RECURSIVE CountIndicators(_, _)
\* sum(line.count(indicator) for indicator in indicators), for one line
CountIndicators(line, indicators) ==
  IF indicators = << >> THEN 0
  ELSE PyCount(line, indicators[1]) + CountIndicators(line, Tail(indicators))

RECURSIVE ComplexityCount(_)
\* complexity_count: the sum over the lines and the indicators.
ComplexityCount(lines) ==
  IF lines = << >> THEN 0
  ELSE CountIndicators(lines[1], complexity_indicators)
         + ComplexityCount(Tail(lines))

\* _calculate_complexity_score(filename), in hundredths: 0 when reading
\* the file raises, else round(complexity_count / len(lines) * 100, 2).
_calculate_complexity_score(source) ==
  IF ~source.readable THEN 0
  ELSE LET lines == PySplit(source.text, NewLine)
       IN  IF lines # << >>
           THEN RoundDiv(ComplexityCount(lines) * 10000, Len(lines))
           ELSE 0

\* Lines of source text.
LineIf == <<"i", "f", " ", "a", ":">>

LineElif == <<"e", "l", "i", "f", " ", "b", ":">>

LineElse == <<"e", "l", "s", "e", ":">>

LineTwoIfs == <<"i", "f", " ", "a", " ", "i", "f", " ", "b">>

SourceLines == {<< >>, LineIf, LineElif, LineElse, LineTwoIfs}

RECURSIVE Join(_)
\* The text of the lines, a '\n' between each two.
Join(lines) ==
  IF lines = << >> THEN << >>
  ELSE IF Len(lines) = 1 THEN lines[1]
       ELSE lines[1] \o <<NewLine>> \o Join(Tail(lines))

\* The source files scored: the texts of up to MaxLines lines, and a file
\* that cannot be read.
Sources ==
  {Unreadable} \cup
    {SourceText(Join(ls)) : ls \in UNION {[1..n -> SourceLines] : n \in 0..MaxLines}}

\* ----------------------------------------------------- coverage data

\* The project the requests name, and a path that does not exist.
ProjectPath == "/srv/proj"

MissingPath == "/srv/gone"

Paths == {ProjectPath, MissingPath}

PathExistsAlways(path) == TRUE

\* Path(project_path).exists()
PathExists(path) == path = ProjectPath

\* Path(project_path).name
PathName(path) == IF path = ProjectPath THEN "proj" ELSE "gone"

\* One measured file with what cov.analysis2 reports for it: a file name
\* (the directory it lies under and the path below it), the executable
\* statements, the missing ones (a subset) and the excluded lines, and
\* the source file as _calculate_complexity_score finds it.
MeasuredFile(root, rel, nstatements, missing, excluded, source) ==
  [filename |-> [root |-> root, rel |-> rel],
   statements |-> 1..nstatements,
   missing |-> missing,
   excluded |-> excluded,
   source |-> source]

FileA ==
  MeasuredFile(ProjectPath, "a.py", 10, {2, 5, 9}, {},
               SourceText(Join(<<LineIf, LineElif, LineElse>>)))

FileB == MeasuredFile(ProjectPath, "b.py", 4, {1, 2, 3, 4}, {7}, Unreadable)

FileC == MeasuredFile(ProjectPath, "c.py", 3, {2}, {}, SourceText(LineTwoIfs))

\* A file at 80 percent exactly.
FileD ==
  MeasuredFile(ProjectPath, "d.py", 5, {4}, {},
               SourceText(Join(<<LineElse, << >> >>)))

FileInit == MeasuredFile(ProjectPath, "pkg/__init__.py", 0, {}, {}, SourceText(<< >>))

FileExt == MeasuredFile("/usr/lib", "x.py", 2, {1}, {}, SourceText(LineIf))

\* What get_data().branch_coverage() gives: it raises, or returns a dict.
BranchRaises == [raises |-> TRUE, stats |-> EmptyDict]

BranchStats(stats) == [raises |-> FALSE, stats |-> stats]

\* The contents the coverage data file can have after cov.save().
CoverageDataSets ==
  { [files |-> << >>, branch |-> BranchRaises],
    [files |-> <<FileA>>, branch |-> BranchStats(EmptyDict)],
    [files |-> <<FileInit, FileA, FileB>>,
     branch |-> BranchStats([percent_covered |-> [num |-> 20000, den |-> 3]])],
    [files |-> <<FileC, FileD, FileExt>>, branch |-> BranchStats([lines |-> 12])] }

\* No data file: cov.load() finds nothing measured.
NoCoverageData == [files |-> << >>, branch |-> BranchRaises]

\* The sets of files whose analysis2 call can fail in one analysis.
BrokenChoices(cov) ==
  {{}} \cup {{cov.files[i].filename} : i \in 1..Len(cov.files)}

RECURSIVE SortedSeq(_)
\* sorted(lines)
SortedSeq(lines) ==
  IF lines = {} THEN << >>
  ELSE LET m == CHOOSE x \in lines : \A y \in lines : x <= y
       IN  <<m>> \o SortedSeq(lines \ {m})

\* ------------------------------------------------------------- metrics

LineCoverageTruncated(covered_lines, total_lines) ==
  IF total_lines > 0 THEN (covered_lines * 10000) \div total_lines ELSE 0

\* (covered_lines / total_lines * 100) if total_lines > 0 else 0, rounded
\* to 2 decimals.

LineCoverage(covered_lines, total_lines) ==
  IF total_lines > 0 THEN RoundDiv(covered_lines * 10000, total_lines) ELSE 0

\* CoverageMetrics(...); function_coverage is always 0.
CoverageMetrics(line_cov, branch_cov, total, covered, missing, excluded) ==
  [line_coverage |-> line_cov,
   branch_coverage |-> branch_cov,
   function_coverage |-> 0,
   total_lines |-> total,
   covered_lines |-> covered,
   missing_lines |-> missing,
   excluded_lines |-> excluded]

RECURSIVE TotalsOf(_)
\* The loop of _calculate_total_metrics over measured_files(): the four
\* accumulators after the files.
TotalsOf(files) ==
  IF files = << >>
  THEN [total_lines |-> 0, covered_lines |-> 0,
        missing_lines |-> << >>, excluded_lines |-> << >>]
  ELSE LET analysis == files[1]
           rest == TotalsOf(Tail(files))
       IN  [total_lines |-> Cardinality(analysis.statements) + rest.total_lines,
            covered_lines |->
              (Cardinality(analysis.statements) - Cardinality(analysis.missing))
                + rest.covered_lines,
            missing_lines |-> SortedSeq(analysis.missing) \o rest.missing_lines,
            excluded_lines |-> SortedSeq(analysis.excluded) \o rest.excluded_lines]

\* The branch_coverage of the project: 0 when branch_coverage() raises or
\* returns nothing, else round(branch_stats.get('percent_covered', 0), 2).
BranchCoverage(branch) ==
  IF branch.raises \/ branch.stats = EmptyDict THEN 0
  ELSE IF "percent_covered" \in DOMAIN branch.stats
       THEN RoundDiv(branch.stats.percent_covered.num,
                     branch.stats.percent_covered.den)
       ELSE 0

\* Whether analysis2 raises for one of the files.
AnyBroken(files, broken) ==
  \E i \in 1..Len(files) : files[i].filename \in broken

TotalMetricsCountsMissing(cov, broken) ==
  IF AnyBroken(cov.files, broken)
  THEN [raised |-> TRUE, metrics |-> EmptyDict]
  ELSE LET t == TotalsOf(cov.files)
       IN  [raised |-> FALSE,
            metrics |-> CoverageMetrics(LineCoverage(Len(t.missing_lines), t.total_lines),
                                        BranchCoverage(cov.branch), t.total_lines,
                                        Len(t.missing_lines), t.missing_lines,
                                        t.excluded_lines)]

\* _calculate_total_metrics(): analysis2 is called outside any try, so a
\* file whose analysis fails ends the call with that exception.
_calculate_total_metrics(cov, broken) ==
  IF AnyBroken(cov.files, broken)
  THEN [raised |-> TRUE, metrics |-> EmptyDict]
  ELSE LET t == TotalsOf(cov.files)
       IN  [raised |-> FALSE,
            metrics |-> CoverageMetrics(LineCoverage(t.covered_lines, t.total_lines),
                                        BranchCoverage(cov.branch), t.total_lines,
                                        t.covered_lines, t.missing_lines,
                                        t.excluded_lines)]

\* The FileCoverage of one measured file (the body of the loop's try).
FileCoverageOf(f) ==
  LET total_lines == Cardinality(f.statements)
      covered_lines == total_lines - Cardinality(f.missing)
  IN  [filename |-> f.filename.rel,
       metrics |-> CoverageMetrics(LineCoverage(covered_lines, total_lines), 0,
                                   total_lines, covered_lines,
                                   SortedSeq(f.missing), SortedSeq(f.excluded)),
       complexity_score |-> _calculate_complexity_score(f.source)]

\* Whether the loop's try fails for the file: analysis2 raises, or
\* Path(filename).relative_to(project_path) does.
FileSkipped(f, broken, project_path) ==
  f.filename \in broken \/ f.filename.root # project_path

RECURSIVE _analyze_file_coverage(_, _, _)
\* _analyze_file_coverage(): one FileCoverage per measured file, a file
\* whose try fails being left out.
_analyze_file_coverage(files, broken, project_path) ==
  IF files = << >> THEN << >>
  ELSE LET rest == _analyze_file_coverage(Tail(files), broken, project_path)
       IN  IF FileSkipped(files[1], broken, project_path) THEN rest
           ELSE <<FileCoverageOf(files[1])>> \o rest

\* --------------------------------------------------- trend history file

\* The trend file when it does not exist.
NoTrendFile == [exists |-> FALSE, parses |-> FALSE, data |-> EmptyDict]

\* The trend file holding the JSON text of trend_data.
TrendFile(trend_data) == [exists |-> TRUE, parses |-> TRUE, data |-> trend_data]

\* The trend file holding a text json.load cannot parse: what is left
\* when open(trend_file, 'w') has emptied the file and json.dump or the
\* closing of the file then fails.
TornTrendFile == [exists |-> TRUE, parses |-> FALSE, data |-> EmptyDict]

\* The trend file holding the JSON text {}: it parses, and the dict has
\* no "history".
ForeignTrendFile == TrendFile(EmptyDict)

\* _load_trend_data(): what json.load makes of the file; the default
\* when there is no file or json.load raises.
_load_trend_data(file) ==
  IF file.exists /\ file.parses THEN file.data
  ELSE [history |-> << >>, trends |-> EmptyDict]

\* data_point of _save_trend_data
DataPoint(report) ==
  [timestamp |-> report.generated_at,
   line_coverage |-> report.total_metrics.line_coverage,
   branch_coverage |-> report.total_metrics.branch_coverage,
   total_lines |-> report.total_metrics.total_lines,
   covered_lines |-> report.total_metrics.covered_lines]

EvictKeepsFirst(history) ==
  IF Len(history) > HistoryCap THEN PySlice(history, 0, HistoryCap) ELSE history

\* if len(history) > 100: history = history[-100:]
Evict(history) ==
  IF Len(history) > HistoryCap
  THEN PySlice(history, -HistoryCap, Len(history))
  ELSE history

UpdatedTrendDataReadOnly(file, report) == _load_trend_data(file)

UpdatedTrendDataClassifiesFirst(file, report) ==
  LET trend_data == _load_trend_data(file)
  IN  [history |-> Evict(Append(trend_data.history, DataPoint(report))),
       trends |-> _calculate_trends(trend_data.history)]

\* The trend_data _save_trend_data builds: load, append, evict, classify.
UpdatedTrendData(file, report) ==
  LET trend_data == _load_trend_data(file)
      history == Evict(Append(trend_data.history, DataPoint(report)))
  IN  [history |-> history, trends |-> _calculate_trends(history)]

\* How the write of _save_trend_data ends: it succeeds, open() raises, or
\* json.dump (or the closing of the file) raises after open() emptied the
\* file.
WriteOutcomes == {"ok", "open", "dump"}

\* The outcomes of the write in an analysis: it is not reached when
\* analysis2 fails for a file, _calculate_total_metrics raising first.
WritesReached(broken) == IF broken = {} THEN WriteOutcomes ELSE {"ok"}

\* with open(trend_file, 'w') as f: json.dump(trend_data, f, indent=2),
\* inside the try whose except prints: the file afterwards.
WriteTrendFile(file, trend_data, write) ==
  IF write = "ok" THEN TrendFile(trend_data)
  ELSE IF write = "open" THEN file
  ELSE TornTrendFile

\* _save_trend_data(report): trend_data["history"] is looked up outside
\* the try, so a loaded dict without it raises KeyError; else the file is
\* written with the updated trend_data.
_save_trend_data(file, report, write) ==
  IF "history" \notin DOMAIN _load_trend_data(file)
  THEN [raised |-> TRUE, exc |-> "KeyError", file |-> file, persisted |-> FALSE]
  ELSE [raised |-> FALSE, exc |-> NoExc,
        file |-> WriteTrendFile(file, UpdatedTrendData(file, report), write),
        persisted |-> write = "ok"]

\* ------------------------------------------------------------ analyzer

\* The step of run_tests_with_coverage that raises, if any.
Faults == {"none", "start", "run", "stop", "save"}

\* Whether subprocess.run returned: cov.start() and it raised nothing.
SubprocessRan(fault) == fault \notin {"start", "run"}

\* Exit codes of the test subprocess.
ReturnCodes == {0, 1}

RunTestsIgnoresExitCode(started, cov_file, fault, returncode, data) ==
  [returned |-> fault = "none",
   raised |-> FALSE,
   left_running |-> fault \in {"run", "stop"},
   saved |-> fault = "none",
   cov_started |-> started \/ fault \in {"run", "stop"},
   coverage_file |-> IF fault = "none" THEN data ELSE cov_file]

\* run_tests_with_coverage(test_command): cov.start(), subprocess.run(),
\* cov.stop(), cov.save(), return returncode == 0; any exception is caught
\* and False returned. `data` is what cov.save() writes. There is no
\* finally: when subprocess.run or cov.stop() raises, the instrumentation
\* cov.start() started is left running, and it stays so whatever later
\* runs start and stop on their own Coverage objects.
run_tests_with_coverage(started, cov_file, fault, returncode, data) ==
  [returned |-> fault = "none" /\ returncode = 0,
   raised |-> FALSE,
   left_running |-> fault \in {"run", "stop"},
   saved |-> fault = "none",
   cov_started |-> started \/ fault \in {"run", "stop"},
   coverage_file |-> IF fault = "none" THEN data ELSE cov_file]

ProceedsAlways(success) == TRUE

\* `if success:` of _run_coverage_analysis
ProceedsToAnalysis(success) == success

ReportTrendDataAfterSave(file, saved_file) == _load_trend_data(saved_file)

\* trend_data = self._load_trend_data() of analyze_coverage: the load
\* stands before the CoverageReport is built and _save_trend_data(report)
\* is called, so it reads the file as the analysis found it.
ReportTrendData(file, saved_file) == _load_trend_data(file)

\* analyze_coverage(): the report and the trend file afterwards, or the
\* exception that leaves it; `caught` is the exception its except clause
\* caught.
analyze_coverage(cov, file, broken, project_path, generated_at, write) ==
  LET total == _calculate_total_metrics(cov, broken)
  IN  IF total.raised
      THEN [raised |-> TRUE, caught |-> "NoSource", exc |-> Reraise("NoSource"),
            report |-> None, trend_file |-> file, persisted |-> FALSE]
      ELSE LET report ==
                 [project_name |-> PathName(project_path),
                  total_metrics |-> total.metrics,
                  file_coverage |->
                    _analyze_file_coverage(cov.files, broken, project_path),
                  trend_data |-> _load_trend_data(file),
                  generated_at |-> generated_at]
               saved == _save_trend_data(file, report, write)
           IN  [raised |-> saved.raised, caught |-> saved.exc,
                exc |-> Reraise(saved.exc),
                report |->
                  IF saved.raised THEN None
                  ELSE [report EXCEPT
                          !.trend_data = ReportTrendData(file, saved.file)],
                trend_file |-> saved.file,
                persisted |-> saved.persisted]

\* report.trend_data.get("trends", {}).get("trend", "unknown")
SummaryTrend(trend_data) ==
  IF "trends" \in DOMAIN trend_data /\ "trend" \in DOMAIN trend_data.trends
  THEN trend_data.trends.trend
  ELSE "unknown"

SummaryCountsUpToEighty(report) ==
  [line_coverage |-> report.total_metrics.line_coverage,
   branch_coverage |-> report.total_metrics.branch_coverage,
   total_files |-> Len(report.file_coverage),
   files_with_low_coverage |->
     Len(SelectSeq(report.file_coverage,
                   LAMBDA f : f.metrics.line_coverage <= LowCoverage)),
   trend |-> SummaryTrend(report.trend_data),
   generated_at |-> report.generated_at]

\* The dict get_coverage_summary() reduces a report to.
SummaryOf(report) ==
  [line_coverage |-> report.total_metrics.line_coverage,
   branch_coverage |-> report.total_metrics.branch_coverage,
   total_files |-> Len(report.file_coverage),
   files_with_low_coverage |->
     Len(SelectSeq(report.file_coverage,
                   LAMBDA f : f.metrics.line_coverage < LowCoverage)),
   trend |-> SummaryTrend(report.trend_data),
   generated_at |-> report.generated_at]

\* get_coverage_summary(): the summary of a new analysis, or the
\* exception that leaves it; the RuntimeError of analyze_coverage is
\* caught and raised again as a RuntimeError.
get_coverage_summary(cov, file, broken, project_path, generated_at, write) ==
  LET res == analyze_coverage(cov, file, broken, project_path, generated_at, write)
  IN  [raised |-> res.raised, caught |-> res.exc, exc |-> Reraise(res.exc),
       summary |-> IF res.raised THEN None ELSE SummaryOf(res.report),
       analysis |-> res]

\* generate_html_report(output_path): cov.html_report raises when nothing
\* was measured or the directory cannot be written; else the absolute
\* output path is returned.
generate_html_report(cov, output_path, write_ok) ==
  LET caught == IF cov.files = << >> THEN "NoDataError"
                ELSE IF ~write_ok THEN "OSError"
                ELSE NoExc
  IN  [raised |-> caught # NoExc, caught |-> caught, exc |-> Reraise(caught),
       path |-> IF caught # NoExc THEN None ELSE Absolute(output_path)]

\* generate_json_report(report, output_path): open() or json.dump raises,
\* or the absolute output path is returned.
generate_json_report(report, output_path, write_ok) ==
  LET caught == IF ~write_ok THEN "OSError" ELSE NoExc
  IN  [raised |-> caught # NoExc, caught |-> caught, exc |-> Reraise(caught),
       path |-> IF caught # NoExc THEN None ELSE Absolute(output_path)]

\* generated_at.strftime('%Y%m%d_%H%M%S'): the time cut to the second.
StrfTime(generated_at) == generated_at \div TicksPerSecond

\* f"{report.project_name}_{report.generated_at.strftime(...)}"
ReportId(report) == <<report.project_name, StrfTime(report.generated_at)>>

DictOnly(d, k, v) == [x \in {k} |-> v]

\* d[k] = v
DictSet(d, k, v) ==
  [x \in (DOMAIN d) \cup {k} |-> IF x = k THEN v ELSE d[x]]

\* ------------------------------------------------------------- SpecKit

\* The attributes of SpecKit that hold a phase manager.
Managers ==
  {"_constitution_manager", "_specification_builder", "_clarification_engine",
   "_technical_planner", "_task_generator", "_implementation_tracker",
   "_consistency_analyzer", "_artifact_generator"}

\* The class whose instance a workflow method puts into the attribute; no
\* method assigns _implementation_tracker.
ManagerClass(attr) ==
  CASE attr = "_constitution_manager" -> "ConstitutionManager"
    [] attr = "_specification_builder" -> "SpecificationBuilder"
    [] attr = "_clarification_engine" -> "ClarificationEngine"
    [] attr = "_technical_planner" -> "TechnicalPlanner"
    [] attr = "_task_generator" -> "TaskGenerator"
    [] attr = "_consistency_analyzer" -> "ConsistencyAnalyzer"
    [] attr = "_artifact_generator" -> "ArtifactGenerator"
    [] OTHER -> "ImplementationTracker"

\* The managers whose constructor is given the provider alone:
\* ClarificationEngine(self.llm) and ConsistencyAnalyzer(self.llm).
LlmOnly == {"_clarification_engine", "_consistency_analyzer"}

\* The classes of the objects a SpecKit builds.
Classes ==
  {"LiteLLMProvider", "FileStorage"} \cup {ManagerClass(a) : a \in Managers}

\* None where a feature id is expected: no string a caller passes.
NoId == "<None>"

\* What a method answered, before the method fills it in.
NoResult ==
  [op |-> "init", method |-> "", manager |-> None, called |-> << >>,
   raised |-> NoExc,
   value |-> None, response |-> None, specification |-> None, plan |-> None,
   artifact |-> None, feature_id |-> NoId]

\* SpecKit.__init__: the provider, the storage and the managers are None.
\* `constructed` counts the objects built, by class; `awaiting` holds the
\* coroutines of the async methods that stand at their await; `saved` is
\* what the storage was told to save.
NewKit ==
  [_llm |-> None, _storage |-> None,
   managers |-> [a \in Managers |-> None],
   constructed |-> [c \in Classes |-> 0],
   awaiting |-> {},
   saved |-> {},
   result |-> NoResult]

\* The kit after an object of the class was built, and that object.
Constructed(k, cls) == [k EXCEPT !.constructed[cls] = @ + 1]

Object(k, cls) == [cls |-> cls, serial |-> k.constructed[cls] + 1]

LlmAlwaysNew(k) ==
  [kit |-> [Constructed(k, "LiteLLMProvider") EXCEPT
              !._llm = Object(k, "LiteLLMProvider")],
   value |-> Object(k, "LiteLLMProvider")]

\* The property SpecKit.llm: if self._llm is None it is built; return it.
llm(k) ==
  IF k._llm = None
  THEN [kit |-> [Constructed(k, "LiteLLMProvider") EXCEPT
                   !._llm = Object(k, "LiteLLMProvider")],
        value |-> Object(k, "LiteLLMProvider")]
  ELSE [kit |-> k, value |-> k._llm]

\* The property SpecKit.storage, likewise.
storage(k) ==
  IF k._storage = None
  THEN [kit |-> [Constructed(k, "FileStorage") EXCEPT
                   !._storage = Object(k, "FileStorage")],
        value |-> Object(k, "FileStorage")]
  ELSE [kit |-> k, value |-> k._storage]

\* if self._x is None: self._x = X(self.llm, self.storage), the head of
\* every workflow method; the manager keeps the objects it was given.
EnsureManager(k, attr) ==
  IF k.managers[attr] # None THEN k
  ELSE LET p == llm(k)
           s == IF attr \in LlmOnly THEN [kit |-> p.kit, value |-> None]
                ELSE storage(p.kit)
           cls == ManagerClass(attr)
       IN  [Constructed(s.kit, cls) EXCEPT
              !.managers[attr] =
                [cls |-> cls, serial |-> s.kit.constructed[cls] + 1,
                 llm |-> p.value, storage |-> s.value]]

\* No call of the storage before the manager's method is called.
NoLoad == ""

\* A workflow method up to the call of its manager's method: the manager
\* is ensured, then self.storage.load_constitution() or
\* self.storage.load_specification(...) is called by the methods that
\* give their manager that context.
Prepared(k, attr, load) ==
  LET m == EnsureManager(k, attr)
      s == IF load = NoLoad THEN [kit |-> m, value |-> None] ELSE storage(m)
  IN  [kit |-> s.kit,
       manager |-> s.kit.managers[attr],
       called |-> IF load = NoLoad THEN << >>
                  ELSE <<[op |-> load, on |-> s.value]>>]

\* Specifications and plans handed to the methods.
Specs ==
  {[type |-> "Specification", feature_id |-> "001-auth", feature_name |-> "Login"],
   [type |-> "Specification", feature_id |-> "002-pay", feature_name |-> "Payments"]}

Plans ==
  {[type |-> "TechnicalPlan", feature_id |-> "001-auth"],
   [type |-> "TechnicalPlan", feature_id |-> "002-pay"]}

\* The feature ids and names of the provider's structured responses: none,
\* that of a specification, one made up.
LlmIds == {"", "001-auth", "999-llm"}

LlmNames == {"Made up"}

\* The provider's call raised.
LlmError == [error |-> TRUE]

\* The response_model each generate method asks the provider for.
ResponseModel(name) ==
  CASE name = "generate_data_model" -> "DataModel"
    [] name = "generate_research" -> "ResearchFindings"
    [] name = "generate_api_contract" -> "APIContract"
    [] name = "generate_checklist" -> "QualityChecklist"
    [] OTHER -> "QuickstartGuide"

\* What complete_structured and complete_structured_async can give for the
\* response model: an instance with the ids of the response, or an error.
LlmOutcomes(response_model) ==
  {[type |-> response_model, feature_id |-> i, feature_name |-> n,
    created_at |-> None] : i \in LlmIds, n \in LlmNames}
    \cup {LlmError}

GenerateKeepsResponseIds(response, specification, plan, created_at) ==
  [response EXCEPT !.created_at = created_at]

\* generate_data_model after the provider's response
generate_data_model(data_model, specification, plan, created_at) ==
  [data_model EXCEPT !.feature_id = specification.feature_id,
                     !.feature_name = specification.feature_name,
                     !.created_at = created_at]

\* generate_data_model_async after the awaited response
generate_data_model_async(data_model, specification, plan, created_at) ==
  [data_model EXCEPT !.feature_id = specification.feature_id,
                     !.feature_name = specification.feature_name,
                     !.created_at = created_at]

\* generate_research: the ids are those of the plan, the name is left
generate_research(research, specification, plan, created_at) ==
  [research EXCEPT !.feature_id = plan.feature_id,
                   !.created_at = created_at]

\* generate_research_async
generate_research_async(research, specification, plan, created_at) ==
  [research EXCEPT !.feature_id = plan.feature_id,
                   !.created_at = created_at]

\* generate_api_contract
generate_api_contract(contract, specification, plan, created_at) ==
  [contract EXCEPT !.feature_id = specification.feature_id,
                   !.feature_name = specification.feature_name,
                   !.created_at = created_at]

\* generate_api_contract_async
generate_api_contract_async(contract, specification, plan, created_at) ==
  [contract EXCEPT !.feature_id = specification.feature_id,
                   !.feature_name = specification.feature_name,
                   !.created_at = created_at]

\* generate_checklist
generate_checklist(checklist, specification, plan, created_at) ==
  [checklist EXCEPT !.feature_id = specification.feature_id,
                    !.feature_name = specification.feature_name,
                    !.created_at = created_at]

\* generate_checklist_async
generate_checklist_async(checklist, specification, plan, created_at) ==
  [checklist EXCEPT !.feature_id = specification.feature_id,
                    !.feature_name = specification.feature_name,
                    !.created_at = created_at]

\* generate_quickstart
generate_quickstart(quickstart, specification, plan, created_at) ==
  [quickstart EXCEPT !.feature_id = specification.feature_id,
                     !.feature_name = specification.feature_name,
                     !.created_at = created_at]

\* generate_quickstart_async
generate_quickstart_async(quickstart, specification, plan, created_at) ==
  [quickstart EXCEPT !.feature_id = specification.feature_id,
                     !.feature_name = specification.feature_name,
                     !.created_at = created_at]

\* The generate methods of ArtifactGenerator, by name.
GenerateMethods ==
  {"generate_data_model", "generate_research", "generate_api_contract",
   "generate_checklist", "generate_quickstart"}

\* What the sync method of that name returns for the response.
Generated(name, response, specification, plan, created_at) ==
  CASE name = "generate_data_model" ->
         generate_data_model(response, specification, plan, created_at)
    [] name = "generate_research" ->
         generate_research(response, specification, plan, created_at)
    [] name = "generate_api_contract" ->
         generate_api_contract(response, specification, plan, created_at)
    [] name = "generate_checklist" ->
         generate_checklist(response, specification, plan, created_at)
    [] OTHER ->
         generate_quickstart(response, specification, plan, created_at)

\* What the async method of that name returns for the response.
GeneratedAsync(name, response, specification, plan, created_at) ==
  CASE name = "generate_data_model" ->
         generate_data_model_async(response, specification, plan, created_at)
    [] name = "generate_research" ->
         generate_research_async(response, specification, plan, created_at)
    [] name = "generate_api_contract" ->
         generate_api_contract_async(response, specification, plan, created_at)
    [] name = "generate_checklist" ->
         generate_checklist_async(response, specification, plan, created_at)
    [] OTHER ->
         generate_quickstart_async(response, specification, plan, created_at)

\* The truth value Python gives a feature id: None and '' are false.
Falsy(x) == x = NoId \/ x = ""

PyOrLeft(a, b) == a

\* a or b
PyOr(a, b) == IF Falsy(a) THEN b ELSE a

\* The artifacts handed to SpecKit.save: of the four classes it knows, of
\* a class it does not know, and a string.
SaveArtifacts ==
  Specs \cup Plans \cup
  {[type |-> "Constitution", project_name |-> "shop"],
   [type |-> "Specification", feature_id |-> "", feature_name |-> "Draft"],
   [type |-> "TaskBreakdown", feature_id |-> "001-auth"],
   [type |-> "TaskBreakdown", feature_id |-> "002-pay"],
   [type |-> "DataModel", feature_id |-> "001-auth", feature_name |-> "Login"],
   [type |-> "str"]}

\* The feature_id arguments of SpecKit.save: the default, '', and an id.
SaveIds == {NoId, "", "007-x"}

\* The call of the storage, as the storage receives it.
StorageCall(op, on, artifact, feature_id) ==
  [op |-> op, on |-> on, artifact |-> artifact, feature_id |-> feature_id]

\* SpecKit.save(artifact, feature_id): the isinstance chain; the classes
\* are taken as unrelated, none a subclass of another.
save(k, artifact, feature_id) ==
  IF artifact.type = "Constitution"
  THEN LET s == storage(k)
       IN  [kit |-> s.kit, raised |-> NoExc,
            called |-> <<StorageCall("save_constitution", s.value, artifact, NoId)>>]
  ELSE IF artifact.type = "Specification"
  THEN LET fid == PyOr(feature_id, artifact.feature_id)
           s == storage(k)
       IN  [kit |-> s.kit, raised |-> NoExc,
            called |-> <<StorageCall("save_specification", s.value, artifact, fid)>>]
  ELSE IF artifact.type = "TechnicalPlan"
  THEN LET fid == PyOr(feature_id, artifact.feature_id)
           s == storage(k)
       IN  [kit |-> s.kit, raised |-> NoExc,
            called |-> <<StorageCall("save_plan", s.value, artifact, fid)>>]
  ELSE IF artifact.type = "TaskBreakdown"
  THEN LET fid == PyOr(feature_id, artifact.feature_id)
           s == storage(k)
       IN  [kit |-> s.kit, raised |-> NoExc,
            called |-> <<StorageCall("save_tasks", s.value, artifact, fid)>>]
  ELSE [kit |-> k, raised |-> "TypeError", called |-> << >>]

\* --------------------------------------------------------------- state

VARIABLES
  trend_file,        \* .coverage_data/trend_data.json of the project
  coverage_file,     \* .coverage_data/.coverage: what cov.save() wrote
  data_dir,          \* whether .coverage_data exists
  cov_started,       \* whether started instrumentation was left running
  coverage_reports,  \* the module's dict of reports, by report id
  pending,           \* background tasks added and not yet run
  now,               \* the clock: the tick of the last datetime.now()
  runs,              \* operations started (bounded by MaxRuns)
  inserted,          \* the data points written to the trend file since it
                     \* was last created or lost, in order
  last,              \* what the last operation did and answered
  workers,           \* the analyses of separate processes, by process
  source,            \* the source file handed to the complexity score
  kit                \* the SpecKit instance

vars == <<trend_file, coverage_file, data_dir, cov_started, coverage_reports,
          pending, now, runs, inserted, last, workers, source, kit>>

\* The record of an operation, before the operation fills it in.
LastNone ==
  [op |-> "init", path |-> "", status |-> 0,
   fault |-> "none", ran |-> FALSE, returncode |-> 0, success |-> FALSE,
   run_raised |-> FALSE, left_running |-> FALSE, saved |-> FALSE,
   analyzed |-> FALSE, broken |-> {}, raised |-> FALSE, caught |-> NoExc,
   exc |-> NoExc, write |-> "ok", persisted |-> FALSE,
   report |-> None, summary |-> None, report_id |-> None, response |-> None]

\* A data point of an earlier analysis of the project with only FileA.
PastPoint(i) ==
  [timestamp |-> i, line_coverage |-> 7000, branch_coverage |-> 0,
   total_lines |-> 10, covered_lines |-> 7]

PastHistory(n) == [i \in 1..n |-> PastPoint(i)]

\* The lengths of the history the project starts with.
InitLens == {0, Window, HistoryCap - 1}

\* The trend file of a project with n earlier analyses.
PastTrendFile(n) ==
  IF n = 0 THEN NoTrendFile
  ELSE TrendFile([history |-> PastHistory(n),
                  trends |-> _calculate_trends(PastHistory(n))])

\* The processes that analyse the project side by side.
Procs == {1, 2}

\* A process that has not begun its analysis.
IdleWorker ==
  [pc |-> "idle", report |-> None, base |-> << >>, trend_data |-> None,
   write |-> "ok"]

NoWorkers == [w \in Procs |-> IdleWorker]

\* What the file system, the process and the clock start as, but for the
\* trend file.
InitRest ==
  /\ coverage_file = NoCoverageData
  /\ cov_started = FALSE
  /\ coverage_reports = EmptyDict
  /\ pending = << >>
  /\ runs = 0
  /\ last = LastNone
  /\ workers = NoWorkers
  /\ source = Unreadable
  /\ kit = NewKit

\* The project starts with no earlier analysis, with some, or with a trend
\* file that another program wrote.
Init ==
  /\ \/ \E n \in InitLens :
          /\ trend_file = PastTrendFile(n)
          /\ inserted = PastHistory(n)
          /\ now = n
          /\ data_dir = (n > 0)
     \/ /\ trend_file = ForeignTrendFile
        /\ inserted = << >>
        /\ now = 0
        /\ data_dir = TRUE
  /\ InitRest

\* ------------------------------------------------------------- actions

\* The data points of the trend file after _save_trend_data: one more
\* when it wrote the file, none when it left the file torn.
InsertedAfter(points, file, saved_file, persisted, report) ==
  IF persisted THEN Append(points, DataPoint(report))
  ELSE IF saved_file # file THEN << >>
  ELSE points

\* POST /coverage/analyze: the HTTPException(400) of a path that does not
\* exist is raised inside the try and caught by its `except Exception`,
\* which answers 500. Otherwise the analyzer is built (its constructor
\* makes the data directory) and the background task is added.
PostAnalyze(path) ==
  IF ~PathExists(path)
  THEN /\ last' = [LastNone EXCEPT !.op = "analyze", !.path = path, !.status = 500]
       /\ UNCHANGED <<trend_file, coverage_file, data_dir, cov_started,
                      coverage_reports, pending, now, runs, inserted,
                      workers, source, kit>>
  ELSE /\ runs < MaxRuns
       /\ Len(pending) < MaxPending
       /\ runs' = runs + 1
       /\ data_dir' = TRUE
       /\ pending' = Append(pending, [project_path |-> path,
                                        test_command |-> "python -m pytest"])
       /\ last' = [LastNone EXCEPT !.op = "analyze", !.path = path, !.status = 200]
       /\ UNCHANGED <<trend_file, coverage_file, cov_started, coverage_reports,
                      now, inserted, workers, source, kit>>

\* _run_coverage_analysis(analyzer, test_command), the background task; it
\* has no await, so it runs as one step.
RunCoverageAnalysis(i) ==
  /\ i \in 1..Len(pending)
  /\ pending' = SubSeq(pending, 1, i - 1) \o SubSeq(pending, i + 1, Len(pending))
  /\ \E fault \in Faults :
     \E returncode \in (IF SubprocessRan(fault) THEN ReturnCodes ELSE {0}),
        data \in (IF fault = "none" THEN CoverageDataSets ELSE {coverage_file}) :
       LET run == run_tests_with_coverage(cov_started, coverage_file, fault,
                                          returncode, data)
           ran == [LastNone EXCEPT !.op = "task", !.path = pending[i].project_path,
                                   !.fault = fault, !.ran = SubprocessRan(fault),
                                   !.returncode = returncode,
                                   !.success = run.returned,
                                   !.run_raised = run.raised,
                                   !.left_running = run.left_running,
                                   !.saved = run.saved]
       IN  /\ cov_started' = run.cov_started
           /\ coverage_file' = run.coverage_file
           /\ IF ProceedsToAnalysis(run.returned)
              THEN \E broken \in BrokenChoices(run.coverage_file) :
                   \E write \in WritesReached(broken) :
                   \E res \in {analyze_coverage(run.coverage_file, trend_file,
                                                  broken, pending[i].project_path,
                                                  now + 1, write)} :
                         /\ trend_file' = res.trend_file
                         /\ now' = IF res.caught = "NoSource" THEN now ELSE now + 1
                         /\ inserted' =
                              InsertedAfter(inserted, trend_file, res.trend_file,
                                            res.persisted, res.report)
                         /\ coverage_reports' =
                              IF res.raised THEN coverage_reports
                              ELSE DictSet(coverage_reports, ReportId(res.report),
                                           res.report)
                         /\ last' = [ran EXCEPT !.analyzed = TRUE,
                                                !.broken = broken,
                                                !.raised = res.raised,
                                                !.caught = res.caught,
                                                !.exc = res.exc,
                                                !.write = write,
                                                !.persisted = res.persisted,
                                                !.report = res.report,
                                                !.report_id =
                                                  IF res.raised THEN None
                                                  ELSE ReportId(res.report)]
              ELSE /\ last' = ran
                   /\ UNCHANGED <<trend_file, now, inserted, coverage_reports>>
  /\ UNCHANGED <<data_dir, runs, workers, source, kit>>

\* GET /coverage/summary: as above for a path that does not exist; else a
\* new analyzer and its get_coverage_summary(), which analyses again.
GetSummary(path) ==
  IF ~PathExists(path)
  THEN /\ last' = [LastNone EXCEPT !.op = "summary", !.path = path, !.status = 500]
       /\ UNCHANGED <<trend_file, coverage_file, data_dir, cov_started,
                      coverage_reports, pending, now, runs, inserted,
                      workers, source, kit>>
  ELSE /\ runs < MaxRuns
       /\ runs' = runs + 1
       /\ data_dir' = TRUE
       /\ \E broken \in BrokenChoices(coverage_file) :
          \E write \in WritesReached(broken) :
          \E sum \in {get_coverage_summary(coverage_file, trend_file, broken,
                                             path, now + 1, write)} :
            LET res == sum.analysis
            IN  /\ trend_file' = res.trend_file
                /\ now' = IF res.caught = "NoSource" THEN now ELSE now + 1
                /\ inserted' =
                     InsertedAfter(inserted, trend_file, res.trend_file,
                                   res.persisted, res.report)
                /\ last' = [LastNone EXCEPT !.op = "summary", !.path = path,
                                            !.status = IF sum.raised THEN 500 ELSE 200,
                                            !.analyzed = TRUE,
                                            !.broken = broken,
                                            !.raised = sum.raised,
                                            !.caught = sum.caught,
                                            !.exc = sum.exc,
                                            !.write = write,
                                            !.persisted = res.persisted,
                                            !.report = res.report,
                                            !.summary = sum.summary]
       /\ UNCHANGED <<coverage_file, cov_started, coverage_reports, pending,
                      workers, source, kit>>

\* The report ids a client asks for: those of the cache, and that of a
\* report of the project's first second.
RequestIds == (DOMAIN coverage_reports) \cup {<<"proj", 0>>}

\* GET /coverage/report/{report_id}: 404 when the id is no key of the
\* dict, else the report under it.
GetReport(report_id) ==
  /\ last' = IF report_id \notin DOMAIN coverage_reports
             THEN [LastNone EXCEPT !.op = "report", !.status = 404,
                                   !.report_id = report_id]
             ELSE [LastNone EXCEPT !.op = "report", !.status = 200,
                                   !.report_id = report_id,
                                   !.response = coverage_reports[report_id]]
  /\ UNCHANGED <<trend_file, coverage_file, data_dir, cov_started,
                 coverage_reports, pending, now, runs, inserted, workers, source, kit>>

\* The entry of GET /coverage/reports for one item of the dict.
ReportEntry(report_id, report) ==
  [id |-> report_id,
   project_name |-> report.project_name,
   line_coverage |-> report.total_metrics.line_coverage,
   generated_at |-> report.generated_at,
   total_files |-> Len(report.file_coverage)]

\* GET /coverage/reports: one entry for each item of the dict, and their
\* number.
ListReports ==
  LET reports == {ReportEntry(id, coverage_reports[id]) : id \in DOMAIN coverage_reports}
  IN  /\ last' = [LastNone EXCEPT !.op = "reports", !.status = 200,
                                  !.response = [reports |-> reports,
                                                total_count |-> Cardinality(reports)]]
      /\ UNCHANGED <<trend_file, coverage_file, data_dir, cov_started,
                     coverage_reports, pending, now, runs, inserted, workers,
                     source, kit>>

\* POST /coverage/generate-html-report: as above for a path that does not
\* exist; else a new analyzer and its generate_html_report(output_path).
GenerateHtmlReport(path, output_path) ==
  IF ~PathExists(path)
  THEN /\ last' = [LastNone EXCEPT !.op = "html", !.path = path, !.status = 500]
       /\ UNCHANGED <<trend_file, coverage_file, data_dir, cov_started,
                      coverage_reports, pending, now, runs, inserted,
                      workers, source, kit>>
  ELSE /\ data_dir' = TRUE
       /\ \E write_ok \in BOOLEAN :
            LET res == generate_html_report(coverage_file, output_path, write_ok)
            IN  last' = [LastNone EXCEPT !.op = "html", !.path = path,
                                         !.status = IF res.raised THEN 500 ELSE 200,
                                         !.raised = res.raised,
                                         !.caught = res.caught,
                                         !.exc = res.exc,
                                         !.response = [output_path |-> output_path,
                                                       report_path |-> res.path]]
       /\ UNCHANGED <<trend_file, coverage_file, cov_started, coverage_reports,
                      pending, now, runs, inserted, workers, source, kit>>

\* GET /coverage/trends: as above for a path that does not exist; else a
\* new analyzer and what its _load_trend_data() returns.
GetTrends(path) ==
  IF ~PathExists(path)
  THEN /\ last' = [LastNone EXCEPT !.op = "trends", !.path = path, !.status = 500]
       /\ UNCHANGED <<trend_file, coverage_file, data_dir, cov_started,
                      coverage_reports, pending, now, runs, inserted,
                      workers, source, kit>>
  ELSE /\ data_dir' = TRUE
       /\ last' = [LastNone EXCEPT !.op = "trends", !.path = path, !.status = 200,
                                   !.response = _load_trend_data(trend_file)]
       /\ UNCHANGED <<trend_file, coverage_file, cov_started, coverage_reports,
                      pending, now, runs, inserted, workers, source, kit>>

\* analyzer.generate_json_report(report, output_path), called with a
\* report an analysis returned.
GenerateJsonReport(report_id, output_path) ==
  /\ report_id \in DOMAIN coverage_reports
  /\ \E write_ok \in BOOLEAN :
       LET res == generate_json_report(coverage_reports[report_id], output_path,
                                       write_ok)
       IN  last' = [LastNone EXCEPT !.op = "json", !.report_id = report_id,
                                    !.raised = res.raised,
                                    !.caught = res.caught,
                                    !.exc = res.exc,
                                    !.response = [output_path |-> output_path,
                                                  report_path |-> res.path]]
  /\ UNCHANGED <<trend_file, coverage_file, data_dir, cov_started,
                 coverage_reports, pending, now, runs, inserted, workers, source, kit>>

\* The analysis pipeline: the requests that analyse, and the task.
Next ==
  \/ \E path \in Paths : PostAnalyze(path)
  \/ \E i \in 1..MaxPending : RunCoverageAnalysis(i)
  \/ \E path \in Paths : GetSummary(path)

Spec == Init /\ [][Next]_vars

\* The whole router, and generate_json_report called on a cached report,
\* for a project with no earlier analysis or with a trend file that
\* another program wrote.
InitApi ==
  /\ trend_file \in {NoTrendFile, ForeignTrendFile}
  /\ inserted = << >>
  /\ now = 0
  /\ data_dir = (trend_file # NoTrendFile)
  /\ InitRest

NextApi ==
  \/ \E path \in Paths : PostAnalyze(path)
  \/ \E i \in 1..MaxPending : RunCoverageAnalysis(i)
  \/ \E path \in Paths : GetSummary(path)
  \/ \E report_id \in RequestIds : GetReport(report_id)
  \/ ListReports
  \/ \E path \in Paths, output_path \in HtmlOutputPaths :
       GenerateHtmlReport(path, output_path)
  \/ \E path \in Paths : GetTrends(path)
  \/ \E report_id \in RequestIds, output_path \in JsonOutputPaths :
       GenerateJsonReport(report_id, output_path)

SpecApi == InitApi /\ [][NextApi]_vars

\* ------------------------------------- the trend tracker on its own

\* Project totals (covered_lines, total_lines) the tracker is fed.
TrendInputs == {<<44, 50>>, <<2201, 2500>>}

\* The report of an analysis that measured covered of total statements.
ReportWith(covered, total, file, generated_at) ==
  [project_name |-> PathName(ProjectPath),
   total_metrics |-> CoverageMetrics(LineCoverage(covered, total), 0, total,
                                     covered, << >>, << >>),
   file_coverage |-> << >>,
   trend_data |-> _load_trend_data(file),
   generated_at |-> generated_at]

\* The first nine analyses of a project whose line coverage rises from 70
\* by 2 percent each time.
RisingHistory(n) ==
  [i \in 1..n |->
     [timestamp |-> i, line_coverage |-> 7000 + 200 * (i - 1),
      branch_coverage |-> 0, total_lines |-> 50, covered_lines |-> 34 + i]]

InitTrend ==
  /\ \E n \in {0, 2 * Window - 1} :
       /\ trend_file =
            IF n = 0 THEN NoTrendFile
            ELSE TrendFile([history |-> RisingHistory(n),
                            trends |-> _calculate_trends(RisingHistory(n))])
       /\ inserted = RisingHistory(n)
       /\ now = n
       /\ data_dir = (n > 0)
  /\ InitRest

\* _save_trend_data(report) for the report of one more analysis.
SaveTrendData(covered, total) ==
  LET report == ReportWith(covered, total, trend_file, now + 1)
  IN  /\ Len(_load_trend_data(trend_file).history) < MaxHist
      /\ trend_file' = _save_trend_data(trend_file, report, "ok").file
      /\ inserted' = Append(inserted, DataPoint(report))
      /\ now' = now + 1
      /\ last' = [LastNone EXCEPT !.op = "save", !.persisted = TRUE,
                                  !.report = report]
      /\ UNCHANGED <<coverage_file, data_dir, cov_started, coverage_reports,
                     pending, runs, workers, source, kit>>

NextTrend == \E m \in TrendInputs : SaveTrendData(m[1], m[2])

SpecTrend == InitTrend /\ [][NextTrend]_vars

\* ------------------------------------- summaries from an empty history

\* The summaries asked for one after the other.
MaxSummaries == 7

\* A project with saved coverage data and no analysis yet.
InitSummary ==
  /\ trend_file = NoTrendFile
  /\ inserted = << >>
  /\ now = 0
  /\ data_dir = FALSE
  /\ coverage_file \in CoverageDataSets
  /\ cov_started = FALSE
  /\ coverage_reports = EmptyDict
  /\ pending = << >>
  /\ runs = 0
  /\ last = LastNone
  /\ workers = NoWorkers
  /\ source = Unreadable
  /\ kit = NewKit

\* analyzer.get_coverage_summary() of a new TestCoverageAnalyzer of the
\* project, whose constructor makes the data directory.
GetCoverageSummary ==
  /\ runs < MaxSummaries
  /\ runs' = runs + 1
  /\ data_dir' = TRUE
  /\ \E broken \in BrokenChoices(coverage_file) :
     \E write \in WritesReached(broken) :
     \E sum \in {get_coverage_summary(coverage_file, trend_file, broken,
                                        ProjectPath, now + 1, write)} :
       LET res == sum.analysis
       IN  /\ trend_file' = res.trend_file
           /\ now' = IF res.caught = "NoSource" THEN now ELSE now + 1
           /\ inserted' =
                InsertedAfter(inserted, trend_file, res.trend_file,
                              res.persisted, res.report)
           /\ last' = [LastNone EXCEPT !.op = "get_coverage_summary",
                                       !.path = ProjectPath,
                                       !.analyzed = TRUE,
                                       !.broken = broken,
                                       !.raised = sum.raised,
                                       !.caught = sum.caught,
                                       !.exc = sum.exc,
                                       !.write = write,
                                       !.persisted = res.persisted,
                                       !.report = res.report,
                                       !.summary = sum.summary]
  /\ UNCHANGED <<coverage_file, cov_started, coverage_reports, pending,
                 workers, source, kit>>

NextSummary == GetCoverageSummary

SpecSummary == InitSummary /\ [][NextSummary]_vars

\* ------------------------------- analyses in two processes side by side

\* The lengths of the history the two processes find.
RaceLens == {0, Window, HistoryCap}

InitRace ==
  /\ \E n \in RaceLens :
       /\ trend_file = PastTrendFile(n)
       /\ inserted = PastHistory(n)
       /\ now = n
       /\ data_dir = TRUE
  /\ InitRest

\* analyze_coverage() of process w up to its CoverageReport(...).
WorkerAnalyze(w, covered, total) ==
  /\ workers[w].pc = "idle"
  /\ workers' = [workers EXCEPT
                   ![w].pc = "analyzed",
                   ![w].report = ReportWith(covered, total, trend_file, now + 1)]
  /\ now' = now + 1
  /\ UNCHANGED <<trend_file, coverage_file, data_dir, cov_started,
                 coverage_reports, pending, runs, inserted, last, source, kit>>

\* _save_trend_data(report) of process w up to its try: the file is read,
\* and the data point appended and the trends computed in memory.
WorkerLoad(w) ==
  /\ workers[w].pc = "analyzed"
  /\ workers' = [workers EXCEPT
                   ![w].pc = "loaded",
                   ![w].base = _load_trend_data(trend_file).history,
                   ![w].trend_data = UpdatedTrendData(trend_file, workers[w].report)]
  /\ UNCHANGED <<trend_file, coverage_file, data_dir, cov_started,
                 coverage_reports, pending, now, runs, inserted, last, source, kit>>

WriteDataReloaded(worker, file) == UpdatedTrendData(file, worker.report)

\* The trend_data the process writes: the one it built from what it read.
WriteData(worker, file) == worker.trend_data

\* The try of _save_trend_data of process w: the file is written.
WorkerWrite(w) ==
  /\ workers[w].pc = "loaded"
  /\ \E write \in WriteOutcomes :
       LET file == WriteTrendFile(trend_file, WriteData(workers[w], trend_file),
                                  write)
       IN  /\ trend_file' = file
           /\ inserted' = InsertedAfter(inserted, trend_file, file, write = "ok",
                                        workers[w].report)
           /\ workers' = [workers EXCEPT ![w].pc = "done", ![w].write = write]
  /\ UNCHANGED <<coverage_file, data_dir, cov_started, coverage_reports,
                 pending, now, runs, last, source, kit>>

NextRace ==
  \/ \E w \in Procs, m \in TrendInputs : WorkerAnalyze(w, m[1], m[2])
  \/ \E w \in Procs : WorkerLoad(w)
  \/ \E w \in Procs : WorkerWrite(w)

SpecRace == InitRace /\ [][NextRace]_vars

\* ------------------------ background tasks on the server's event loop

SuspendsBeforeWrite == {"loaded"}

\* The places of _run_coverage_analysis at which the event loop can run
\* another coroutine: the function is async and awaits nothing, and
\* run_tests_with_coverage and analyze_coverage are plain calls.
SuspensionPoints == {}

\* Whether the event loop can run coroutine w: every other coroutine has
\* not begun, has ended, or stands at a suspension point.
LoopRuns(w) ==
  \A v \in Procs \ {w} :
    workers[v].pc \in {"idle", "done"} \cup SuspensionPoints

\* The background tasks of two POST /coverage/analyze requests, each
\* awaited by the event loop of the one server process; their steps are
\* those of an analysis: the report, the load, the write.
TaskAnalyze(w, covered, total) == LoopRuns(w) /\ WorkerAnalyze(w, covered, total)

TaskLoad(w) == LoopRuns(w) /\ WorkerLoad(w)

TaskWrite(w) == LoopRuns(w) /\ WorkerWrite(w)

NextLoop ==
  \/ \E w \in Procs, m \in TrendInputs : TaskAnalyze(w, m[1], m[2])
  \/ \E w \in Procs : TaskLoad(w)
  \/ \E w \in Procs : TaskWrite(w)

SpecLoop == InitRace /\ [][NextLoop]_vars

\* ------------------------------------- the complexity score on its own

InitComplexity ==
  /\ trend_file = NoTrendFile
  /\ inserted = << >>
  /\ now = 0
  /\ data_dir = FALSE
  /\ coverage_file = NoCoverageData
  /\ cov_started = FALSE
  /\ coverage_reports = EmptyDict
  /\ pending = << >>
  /\ runs = 0
  /\ last = LastNone
  /\ workers = NoWorkers
  /\ source \in Sources
  /\ kit = NewKit

\* _calculate_complexity_score(filename) for the source file.
CalculateComplexityScore ==
  /\ last.op = "init"
  /\ last' = [LastNone EXCEPT !.op = "complexity",
                              !.response = _calculate_complexity_score(source)]
  /\ UNCHANGED <<trend_file, coverage_file, data_dir, cov_started,
                 coverage_reports, pending, now, runs, inserted, workers, source, kit>>

NextComplexity == CalculateComplexityScore

SpecComplexity == InitComplexity /\ [][NextComplexity]_vars

\* ----------------------------------------------- the methods of SpecKit

\* The variables no method of SpecKit touches.
CoverageVars ==
  <<trend_file, coverage_file, data_dir, cov_started, coverage_reports,
    pending, now, runs, inserted, last, workers, source>>

\* Most coroutines of async methods standing at their await at once.
MaxAwaiting == 1

\* Most different calls the storage is told to save.
MaxSaves == 2

InitKit ==
  /\ trend_file = NoTrendFile
  /\ inserted = << >>
  /\ now = 0
  /\ data_dir = FALSE
  /\ InitRest

\* A sync workflow method: its manager is ensured, the context is loaded,
\* the manager's method is called and what it gives is returned.
Workflow(name, attr, load) ==
  LET p == Prepared(kit, attr, load)
  IN  /\ kit' = [p.kit EXCEPT
                   !.result = [NoResult EXCEPT !.op = name,
                                               !.manager = p.manager,
                                               !.called = p.called]]
      /\ UNCHANGED CoverageVars

\* An async workflow method up to its await: the same, and the coroutine
\* stands at `return await manager.method_async(...)`.
WorkflowAsync(name, method, attr, load, specification, plan) ==
  LET p == Prepared(kit, attr, load)
      call == [op |-> name, method |-> method, manager |-> p.manager,
               called |-> p.called, specification |-> specification,
               plan |-> plan]
  IN  /\ Cardinality(kit.awaiting) < MaxAwaiting
      /\ call \notin kit.awaiting
      /\ kit' = [p.kit EXCEPT !.awaiting = @ \cup {call}]
      /\ UNCHANGED CoverageVars

\* What a generate method answers for the provider's outcome: the error
\* of the provider leaves the method, else the artifact is returned.
GenerateResult(name, method, async, manager, response, specification, plan) ==
  LET r == [NoResult EXCEPT !.op = name, !.method = method,
                            !.manager = manager,
                            !.response = response,
                            !.specification = specification,
                            !.plan = plan]
  IN  IF response = LlmError THEN [r EXCEPT !.raised = "LLMError"]
      ELSE [r EXCEPT !.value =
              IF async
              THEN GeneratedAsync(method, response, specification, plan, now)
              ELSE Generated(method, response, specification, plan, now)]

\* A sync generate method of SpecKit: the generator is ensured and its
\* method of the same name called.
Generate(method, specification, plan) ==
  LET k == EnsureManager(kit, "_artifact_generator")
  IN  /\ \E response \in LlmOutcomes(ResponseModel(method)) :
           kit' = [k EXCEPT
                     !.result =
                       GenerateResult(method, method, FALSE,
                                      k.managers["_artifact_generator"],
                                      response, specification, plan)]
      /\ UNCHANGED CoverageVars

\* The awaited call of a coroutine ends and the async method returns.
Resume(call) ==
  /\ call \in kit.awaiting
  /\ IF call.method \in GenerateMethods
     THEN \E response \in LlmOutcomes(ResponseModel(call.method)) :
            kit' = [kit EXCEPT
                      !.awaiting = @ \ {call},
                      !.result =
                        GenerateResult(call.op, call.method, TRUE, call.manager,
                                       response, call.specification, call.plan)]
     ELSE kit' = [kit EXCEPT
                    !.awaiting = @ \ {call},
                    !.result = [NoResult EXCEPT !.op = call.op,
                                                !.manager = call.manager,
                                                !.called = call.called]]
  /\ UNCHANGED CoverageVars

Constitution == Workflow("constitution", "_constitution_manager", NoLoad)

Specify == Workflow("specify", "_specification_builder", "load_constitution")

SpecifyAsync ==
  WorkflowAsync("specify_async", "generate", "_specification_builder",
                "load_constitution", None, None)

Clarify == Workflow("clarify", "_clarification_engine", NoLoad)

ApplyClarification ==
  Workflow("apply_clarification", "_clarification_engine", NoLoad)

Plan == Workflow("plan", "_technical_planner", "load_constitution")

PlanAsync ==
  WorkflowAsync("plan_async", "plan", "_technical_planner",
                "load_constitution", None, None)

Tasks == Workflow("tasks", "_task_generator", "load_specification")

TasksAsync ==
  WorkflowAsync("tasks_async", "generate", "_task_generator",
                "load_specification", None, None)

Analyze == Workflow("analyze", "_consistency_analyzer", NoLoad)

\* SpecKit.save(artifact, feature_id)
Save(artifact, feature_id) ==
  /\ Cardinality(kit.saved) < MaxSaves
  /\ LET r == save(kit, artifact, feature_id)
     IN  kit' = [r.kit EXCEPT
                   !.saved = @ \cup {r.called[i] : i \in 1..Len(r.called)},
                   !.result = [NoResult EXCEPT !.op = "save",
                                               !.called = r.called,
                                               !.raised = r.raised,
                                               !.artifact = artifact,
                                               !.feature_id = feature_id]]
  /\ UNCHANGED CoverageVars

\* load_specification, load_plan, load_tasks and list_features: the
\* method of the storage of that name is called.
StorageMethod(name) ==
  LET s == storage(kit)
  IN  /\ kit' = [s.kit EXCEPT
                   !.result = [NoResult EXCEPT
                                 !.op = name,
                                 !.called = <<[op |-> name, on |-> s.value]>>]]
      /\ UNCHANGED CoverageVars

LoadSpecification == StorageMethod("load_specification")

LoadPlan == StorageMethod("load_plan")

LoadTasks == StorageMethod("load_tasks")

ListFeatures == StorageMethod("list_features")

GenerateDataModel(specification, plan) ==
  Generate("generate_data_model", specification, plan)

GenerateDataModelAsync(specification, plan) ==
  WorkflowAsync("generate_data_model_async", "generate_data_model",
                "_artifact_generator", NoLoad, specification, plan)

GenerateResearch(plan) == Generate("generate_research", None, plan)

GenerateResearchAsync(plan) ==
  WorkflowAsync("generate_research_async", "generate_research",
                "_artifact_generator", NoLoad, None, plan)

GenerateApiContract(specification, plan) ==
  Generate("generate_api_contract", specification, plan)

GenerateApiContractAsync(specification, plan) ==
  WorkflowAsync("generate_api_contract_async", "generate_api_contract",
                "_artifact_generator", NoLoad, specification, plan)

GenerateChecklist(specification) ==
  Generate("generate_checklist", specification, None)

GenerateChecklistAsync(specification) ==
  WorkflowAsync("generate_checklist_async", "generate_checklist",
                "_artifact_generator", NoLoad, specification, None)

GenerateQuickstart(specification, plan) ==
  Generate("generate_quickstart", specification, plan)

GenerateQuickstartAsync(specification, plan) ==
  WorkflowAsync("generate_quickstart_async", "generate_quickstart",
                "_artifact_generator", NoLoad, specification, plan)

\* The specification and the plan of the first feature.
FirstSpecs == {s \in Specs : s.feature_id = "001-auth"}

FirstPlans == {p \in Plans : p.feature_id = "001-auth"}

\* The workflow of one SpecKit instance: every method, on the artifacts
\* of one feature.
NextKit ==
  \/ Constitution
  \/ Specify
  \/ SpecifyAsync
  \/ Clarify
  \/ ApplyClarification
  \/ Plan
  \/ PlanAsync
  \/ Tasks
  \/ TasksAsync
  \/ Analyze
  \/ \E artifact \in FirstSpecs \cup {[type |-> "str"]} : Save(artifact, NoId)
  \/ LoadSpecification
  \/ LoadPlan
  \/ LoadTasks
  \/ ListFeatures
  \/ \E s \in FirstSpecs, p \in FirstPlans : GenerateDataModel(s, p)
  \/ \E s \in FirstSpecs, p \in FirstPlans : GenerateDataModelAsync(s, p)
  \/ \E p \in FirstPlans : GenerateResearch(p)
  \/ \E p \in FirstPlans : GenerateResearchAsync(p)
  \/ \E s \in FirstSpecs, p \in FirstPlans : GenerateApiContract(s, p)
  \/ \E s \in FirstSpecs, p \in FirstPlans : GenerateApiContractAsync(s, p)
  \/ \E s \in FirstSpecs : GenerateChecklist(s)
  \/ \E s \in FirstSpecs : GenerateChecklistAsync(s)
  \/ \E s \in FirstSpecs, p \in FirstPlans : GenerateQuickstart(s, p)
  \/ \E s \in FirstSpecs, p \in FirstPlans : GenerateQuickstartAsync(s, p)
  \/ \E call \in kit.awaiting : Resume(call)

SpecKit == InitKit /\ [][NextKit]_vars

\* SpecKit.save on its own, over the artifacts and feature ids.
NextSave ==
  \E artifact \in SaveArtifacts, feature_id \in SaveIds : Save(artifact, feature_id)

SpecSave == InitKit /\ [][NextSave]_vars

\* The generate methods on their own, over the specifications, the plans
\* and the provider's responses.
NextArtifacts ==
  \/ \E s \in Specs, p \in Plans : GenerateDataModel(s, p)
  \/ \E s \in Specs, p \in Plans : GenerateDataModelAsync(s, p)
  \/ \E p \in Plans : GenerateResearch(p)
  \/ \E p \in Plans : GenerateResearchAsync(p)
  \/ \E s \in Specs, p \in Plans : GenerateApiContract(s, p)
  \/ \E s \in Specs, p \in Plans : GenerateApiContractAsync(s, p)
  \/ \E s \in Specs : GenerateChecklist(s)
  \/ \E s \in Specs : GenerateChecklistAsync(s)
  \/ \E s \in Specs, p \in Plans : GenerateQuickstart(s, p)
  \/ \E s \in Specs, p \in Plans : GenerateQuickstartAsync(s, p)
  \/ \E call \in kit.awaiting : Resume(call)

SpecArtifacts == InitKit /\ [][NextArtifacts]_vars

\* ---------------------------------------------------------- properties

\* The persisted history and trends, as a reader of the file finds them.
HistoryOf(trend_data) ==
  IF "history" \in DOMAIN trend_data THEN trend_data.history ELSE << >>

TrendsOf(trend_data) ==
  IF "trends" \in DOMAIN trend_data THEN trend_data.trends ELSE EmptyDict

StoredHistory == HistoryOf(_load_trend_data(trend_file))

StoredTrends == TrendsOf(_load_trend_data(trend_file))

\* The two windows by position: the last Window records, and before them
\* the Window records next to them (2 * Window records or more) or all
\* the records there are.
RecentByIndex(h) ==
  LET k == Min(Window, Len(h))
  IN  [i \in 1..k |-> h[Len(h) - k + i]]

OlderByIndex(h) ==
  IF Len(h) >= 2 * Window
  THEN [i \in 1..Window |-> h[Len(h) - 2 * Window + i]]
  ELSE [i \in 1..Max(Len(h) - Window, 0) |-> h[i]]

\* x is num / den rounded to the nearest integer (den > 0).
Nearest(x, num, den) == 2 * Abs(x * den - num) <= den

\* The label that stands for the opposite direction.
Flip(trend) ==
  IF trend = "improving" THEN "declining"
  ELSE IF trend = "declining" THEN "improving"
  ELSE trend

\* The history with its last two blocks of Window records exchanged.
Swapped(h) ==
  SubSeq(h, 1, Len(h) - 2 * Window) \o RecentByIndex(h) \o OlderByIndex(h)

\* C1: the persisted history never holds more than 100 records: it is
\* the data points persisted so far (since the file was last created or
\* lost), in insertion order, or the last 100 of them once there are
\* more (so it holds exactly 100 after the 101st).
C1_HistoryKeepsLastHundred ==
  LET n == Len(inserted)
      k == Min(n, HistoryCap)
  IN  /\ Len(StoredHistory) <= HistoryCap
      /\ Len(StoredHistory) = k
      /\ \A i \in 1..k : StoredHistory[i] = inserted[n - k + i]

C1_Witness ==
  /\ Len(inserted) = HistoryCap + 1
  /\ Len(StoredHistory) = HistoryCap
  /\ last.persisted
  /\ StoredHistory[1] # inserted[1]

\* C2: the stored trend is taken from two windows of the history: the
\* last 5 records, and the 5 records before them when there are 10 or
\* more, else all records before the last 5 (1 to 4 of them for 6 to 9
\* records); its two averages are the means of line_coverage over them.
C2_TrendWindows ==
  LET h == StoredHistory
      recent == RecentByIndex(h)
      older == OlderByIndex(h)
  IN  Len(h) > Window =>
        /\ Len(recent) = Window
        /\ Len(older) = IF Len(h) >= 2 * Window THEN Window ELSE Len(h) - Window
        /\ StoredTrends # EmptyDict
        /\ Nearest(StoredTrends.recent_average, SumLineCoverage(recent), Len(recent))
        /\ Nearest(StoredTrends.previous_average, SumLineCoverage(older), Len(older))
        /\ StoredTrends.trend =
             TrendLabel(WindowAverage(recent), WindowAverage(older))

C2_Witness ==
  /\ Len(StoredHistory) = 2 * Window + 1
  /\ last.op = "save"
  /\ StoredHistory[1].line_coverage > StoredHistory[Window + 1].line_coverage
  /\ StoredTrends.previous_average < StoredHistory[1].line_coverage

\* C3: the trend result is empty for a history of fewer than 2 records
\* and for one of 2 to 5 records; it is not empty, and has its four
\* entries, exactly when the history has 6 records or more.
C3_TrendEmptyUpToFive ==
  /\ (StoredTrends = EmptyDict) <=> (Len(StoredHistory) <= Window)
  /\ Len(StoredHistory) > Window =>
       DOMAIN StoredTrends =
         {"trend", "change_percentage", "recent_average", "previous_average"}

C3_Witness ==
  /\ Len(StoredHistory) = Window
  /\ last.op = "save"
  /\ StoredTrends = EmptyDict
  /\ StoredHistory[1].line_coverage # StoredHistory[Window].line_coverage

\* C4: a trend is "improving" exactly when the recent mean is greater
\* than the older mean, "declining" exactly when it is smaller, "stable"
\* exactly when they are equal; exchanging the two windows exchanges
\* "improving" and "declining" and keeps "stable".
C4_TrendLabelBySign ==
  LET h == StoredHistory
      r == SumLineCoverage(RecentByIndex(h)) * Len(OlderByIndex(h))
      o == SumLineCoverage(OlderByIndex(h)) * Len(RecentByIndex(h))
  IN  Len(h) > Window =>
        /\ (StoredTrends.trend = "improving") <=> (r > o)
        /\ (StoredTrends.trend = "declining") <=> (r < o)
        /\ (StoredTrends.trend = "stable") <=> (r = o)
        /\ TrendLabel(WindowAverage(OlderByIndex(h)), WindowAverage(RecentByIndex(h)))
             = Flip(StoredTrends.trend)
        /\ Len(h) >= 2 * Window =>
             _calculate_trends(Swapped(h)).trend = Flip(StoredTrends.trend)

C4_Witness ==
  /\ Len(StoredHistory) >= 2 * Window
  /\ last.op = "save"
  /\ StoredTrends.trend = "declining"
  /\ _calculate_trends(Swapped(StoredHistory)).trend = "improving"

\* The line_coverage of the history's records, in order.
LineCoverages(h) == [i \in 1..Len(h) |-> h[i].line_coverage]

\* The history of line_coverage 70, 72, ..., 88.
IsRisingScenario(h) ==
  LineCoverages(h) = <<7000, 7200, 7400, 7600, 7800, 8000, 8200, 8400, 8600, 8800>>

\* The general part of C5: change_percentage is the recent mean minus the
\* older mean rounded to 2 decimals, recent_average and previous_average
\* are the two means rounded to 2 decimals.
TrendValuesRounded ==
  LET h == StoredHistory
      r == SumLineCoverage(RecentByIndex(h))
      o == SumLineCoverage(OlderByIndex(h))
      nr == Len(RecentByIndex(h))
      no == Len(OlderByIndex(h))
  IN  Len(h) > Window =>
        /\ Nearest(StoredTrends.change_percentage, r * no - o * nr, nr * no)
        /\ Nearest(StoredTrends.recent_average, r, nr)
        /\ Nearest(StoredTrends.previous_average, o, no)

\* C5 as claimed: the rounded values above, and for line_coverage 70, 72,
\* ..., 88 the result "improving", change_percentage 8.0, recent_average
\* 84 and previous_average 76.
C5_AsClaimed ==
  /\ TrendValuesRounded
  /\ IsRisingScenario(StoredHistory) =>
       StoredTrends = [trend |-> "improving", change_percentage |-> 800,
                       recent_average |-> 8400, previous_average |-> 7600]

\* C5 amended: the rounded values above, and for line_coverage 70, 72,
\* ..., 88 the result "improving", change_percentage 10.0, recent_average
\* 84 and previous_average 74 (the mean of 70, 72, 74, 76, 78).
C5_TrendValues ==
  /\ TrendValuesRounded
  /\ IsRisingScenario(StoredHistory) =>
       StoredTrends = [trend |-> "improving", change_percentage |-> 1000,
                       recent_average |-> 8400, previous_average |-> 7400]

C5_Witness ==
  /\ last.op = "save"
  /\ IsRisingScenario(StoredHistory)
  /\ StoredTrends.change_percentage = 1000

\* Whether the last operation analysed and got a report.
HasReport == last.analyzed /\ ~last.raised

\* covered_lines <= total_lines, and line_coverage is covered_lines /
\* total_lines * 100 rounded to 2 decimals, or 0 for no lines.
MetricsConsistent(m) ==
  /\ 0 <= m.covered_lines
  /\ m.covered_lines <= m.total_lines
  /\ m.total_lines > 0 =>
       Nearest(m.line_coverage, m.covered_lines * 10000, m.total_lines)
  /\ m.total_lines = 0 => m.line_coverage = 0
  /\ 0 <= m.line_coverage
  /\ m.line_coverage <= 10000

ReportConsistent(report) ==
  /\ MetricsConsistent(report.total_metrics)
  /\ \A i \in 1..Len(report.file_coverage) :
       MetricsConsistent(report.file_coverage[i].metrics)

\* C6: every CoverageMetrics of a report, the project's and each file's,
\* has covered_lines <= total_lines and line_coverage equal to
\* round(covered_lines / total_lines * 100, 2), or 0 when total_lines is
\* 0, so between 0 and 100.
C6_MetricsConsistent ==
  /\ HasReport => ReportConsistent(last.report)
  /\ \A id \in DOMAIN coverage_reports : ReportConsistent(coverage_reports[id])

C6_Witness ==
  /\ HasReport
  /\ \E i \in 1..Len(last.report.file_coverage) :
       last.report.file_coverage[i].metrics.total_lines = 0
  /\ \E i \in 1..Len(last.report.file_coverage) :
       /\ last.report.file_coverage[i].metrics.line_coverage = 7000
       /\ last.report.file_coverage[i].metrics.covered_lines = 7
  /\ last.report.total_metrics.line_coverage = 5000

RECURSIVE CountStatements(_)
\* The statements of the measured files, counted.
CountStatements(files) ==
  IF files = << >> THEN 0
  ELSE Cardinality(files[1].statements) + CountStatements(Tail(files))

RECURSIVE CountMissing(_)
\* The missing statements of the measured files, counted.
CountMissing(files) ==
  IF files = << >> THEN 0
  ELSE Cardinality(files[1].missing) + CountMissing(Tail(files))

\* C7: the project's total_lines is the sum of the measured files'
\* statement counts and its covered_lines is total_lines minus the number
\* of missing statements; one file of 10 statements with 3 missing gives
\* 70.0 for the file and for the project; no measured file gives
\* total_lines 0, line_coverage 0 and an empty file_coverage.
C7_ProjectIsSumOfFiles ==
  HasReport =>
    LET files == coverage_file.files
        m == last.report.total_metrics
    IN  /\ m.total_lines = CountStatements(files)
        /\ m.covered_lines = m.total_lines - CountMissing(files)
        /\ files = <<FileA>> =>
             /\ Len(last.report.file_coverage) = 1
             /\ last.report.file_coverage[1].metrics.line_coverage = 7000
             /\ m.line_coverage = 7000
        /\ files = << >> =>
             /\ m.total_lines = 0
             /\ m.line_coverage = 0
             /\ last.report.file_coverage = << >>

C7_Witness ==
  /\ HasReport
  /\ last.op = "task"
  /\ coverage_file.files = <<FileA>>
  /\ last.report.total_metrics.line_coverage = 7000

\* C8: when the analysis of one measured file fails, the file is skipped
\* and analyze_coverage still returns a report, which covers the other
\* files.
C8_FailingFileIsSkipped ==
  (last.analyzed /\ last.broken # {}) =>
    /\ ~last.raised
    /\ \A i \in 1..Len(coverage_file.files) :
         LET f == coverage_file.files[i]
         IN  (f.filename \notin last.broken /\ f.filename.root = ProjectPath) =>
               \E j \in 1..Len(last.report.file_coverage) :
                 last.report.file_coverage[j].filename = f.filename.rel

\* C9: run_tests_with_coverage returns true exactly when the subprocess
\* ran and exited with code 0 and nothing raised; it returns false for
\* another exit code, and false for an exception of start, run, stop or
\* save, which never reaches the caller.
C9_RunReturnsExitCodeZero ==
  last.op = "task" =>
    /\ last.success <=> (last.ran /\ last.returncode = 0 /\ last.fault = "none")
    /\ (last.ran /\ last.returncode # 0) => ~last.success
    /\ last.fault # "none" => ~last.success
    /\ ~last.run_raised

C9_Witness ==
  /\ last.op = "task"
  /\ last.fault = "save"
  /\ last.returncode = 0
  /\ ~last.success

\* C10: a background task whose run_tests_with_coverage reports failure
\* does not call analyze_coverage, appends nothing to the trend history
\* and stores no report.
C10_FailedRunStopsTask ==
  [][(Len(pending') < Len(pending) /\ ~last'.success) =>
       /\ ~last'.analyzed
       /\ trend_file' = trend_file
       /\ inserted' = inserted
       /\ coverage_reports' = coverage_reports]_vars

C10_Witness ==
  /\ last.op = "task"
  /\ last.ran
  /\ last.returncode = 1
  /\ ~last.success
  /\ ~last.analyzed
  /\ coverage_file.files # << >>

\* Whether the last operation analysed and got as far as the trend
\* tracker: no analysis2 call failed.
ReachedTrendSteps == last.analyzed /\ last.broken = {}

\* C11: loading the trend history is never fatal: with the file absent or
\* unreadable the loaded value is an empty history with empty trends, and
\* whatever the file holds, the append, evict, classify and persist steps
\* of analyze_coverage that follow complete without raising.
C11_LoadAlwaysUsable ==
  /\ (~trend_file.exists \/ ~trend_file.parses) =>
       _load_trend_data(trend_file) = [history |-> << >>, trends |-> EmptyDict]
  /\ ReachedTrendSteps => ~last.raised

\* C12: when the write of the trend file fails, analyze_coverage still
\* returns the complete report and the history that was persisted before
\* is left as it was.
C12_FailedWriteKeepsHistory ==
  [][(last'.analyzed /\ last'.broken = {} /\ last'.write # "ok" /\ now' = now + 1) =>
       /\ last'.caught = NoExc => (~last'.raised /\ last'.report # None)
       /\ HistoryOf(_load_trend_data(trend_file')) = HistoryOf(_load_trend_data(trend_file))
    ]_vars

\* C13: whatever is raised inside analyze_coverage, get_coverage_summary,
\* generate_html_report or generate_json_report leaves the operation as a
\* RuntimeError and as nothing else; on success generate_html_report and
\* generate_json_report return the absolute output path: the output path
\* itself when it is anchored, else the working directory joined with it.
C13_OnlyRuntimeErrorEscapes ==
  /\ last.op \in {"task", "summary", "html", "json"} =>
       /\ last.exc \in {NoExc, "RuntimeError"}
       /\ last.raised <=> (last.exc = "RuntimeError")
       /\ last.caught # NoExc => last.exc = "RuntimeError"
  /\ (last.op \in {"html", "json"} /\ last.path # MissingPath /\ ~last.raised) =>
       LET given == last.response.output_path
           returned == last.response.report_path
       IN  /\ returned.anchored
           /\ given.anchored => returned = given
           /\ ~given.anchored => returned.parts = Cwd \o given.parts

C13_Witness ==
  /\ last.op = "json"
  /\ ~last.raised
  /\ last.response.output_path = RelativePath(<<"coverage_report.json">>)
  /\ last.response.report_path = AnchoredPath(<<"srv", "app", "coverage_report.json">>)

\* The endpoints that take a project_path.
PathEndpoints == {"analyze", "summary", "html", "trends"}

\* C14: POST /coverage/analyze, GET /coverage/summary, POST
\* /coverage/generate-html-report and GET /coverage/trends answer a
\* project_path that does not exist with status 400, and answer 500 only
\* for an internal failure.
C14_MissingPathIs400 ==
  last.op \in PathEndpoints =>
    /\ last.path = MissingPath => last.status = 400
    /\ last.status = 500 => last.path # MissingPath

\* C15: a request whose project_path does not exist is turned down before
\* anything starts: no analyzer is made (the data directory is as it
\* was), no background task is added, no test command runs, nothing is
\* analysed, and the coverage data, the trend file and the report cache
\* are unchanged.
C15_MissingPathChangesNothing ==
  [][(last'.op \in PathEndpoints /\ last'.path = MissingPath) =>
       /\ last'.status # 200
       /\ data_dir' = data_dir
       /\ pending' = pending
       /\ ~last'.ran
       /\ ~last'.analyzed
       /\ coverage_file' = coverage_file
       /\ cov_started' = cov_started
       /\ trend_file' = trend_file
       /\ coverage_reports' = coverage_reports]_vars

C15_Witness ==
  /\ last.op = "analyze"
  /\ last.path = MissingPath
  /\ ~data_dir
  /\ pending = << >>
  /\ runs = 0

\* C16: GET /coverage/report/{id} answers 404 exactly when id is no key of
\* the cache and else the report stored under id; no step removes a key
\* of the cache; GET /coverage/reports lists one entry for each key and
\* total_count is their number.
C16_CacheOnlyGrows ==
  [][/\ DOMAIN coverage_reports \subseteq DOMAIN coverage_reports'
     /\ last'.op = "report" =>
          /\ (last'.status = 404) <=> (last'.report_id \notin DOMAIN coverage_reports)
          /\ last'.status # 404 =>
               /\ last'.status = 200
               /\ last'.response = coverage_reports[last'.report_id]
     /\ last'.op = "reports" =>
          /\ {e.id : e \in last'.response.reports} = DOMAIN coverage_reports
          /\ last'.response.total_count = Cardinality(DOMAIN coverage_reports)
          /\ \A e \in last'.response.reports :
               /\ e.project_name = coverage_reports[e.id].project_name
               /\ e.generated_at = coverage_reports[e.id].generated_at
               /\ e.line_coverage = coverage_reports[e.id].total_metrics.line_coverage
    ]_vars

C16_Witness ==
  /\ last.op = "report"
  /\ last.status = 200
  /\ Cardinality(DOMAIN coverage_reports) = 2
  /\ last.response = coverage_reports[last.report_id]

\* The files of a report whose line coverage is below 80 percent.
FilesBelowEighty(report) ==
  {i \in 1..Len(report.file_coverage) :
     report.file_coverage[i].metrics.line_coverage < 8000}

\* C17: get_coverage_summary analyses anew and returns the project's
\* line_coverage and branch_coverage, total_files = the number of entries
\* of file_coverage, files_with_low_coverage = the number of files with
\* line_coverage strictly below 80 (at most total_files), and trend = the
\* label of the report's trend data, or "unknown" when it has none.
C17_SummaryOfNewAnalysis ==
  (last.op = "summary" /\ last.status = 200) =>
    LET r == last.report
        s == last.summary
    IN  /\ last.analyzed
        /\ r.generated_at = now
        /\ s.line_coverage = r.total_metrics.line_coverage
        /\ s.branch_coverage = r.total_metrics.branch_coverage
        /\ r.total_metrics.total_lines = CountStatements(coverage_file.files)
        /\ s.total_files = Len(r.file_coverage)
        /\ s.files_with_low_coverage = Cardinality(FilesBelowEighty(r))
        /\ s.files_with_low_coverage <= s.total_files
        /\ s.trend \in {"improving", "declining", "stable", "unknown"}
        /\ TrendsOf(r.trend_data) # EmptyDict => s.trend = r.trend_data.trends.trend
        /\ TrendsOf(r.trend_data) = EmptyDict => s.trend = "unknown"

C17_Witness ==
  /\ last.op = "summary"
  /\ last.status = 200
  /\ \E i \in 1..Len(last.report.file_coverage) :
       last.report.file_coverage[i].metrics.line_coverage = 8000
  /\ last.summary.total_files = 2
  /\ last.summary.files_with_low_coverage = 1

\* The processes whose data point the persisted history holds.
Recorded ==
  {w \in Procs :
     \E i \in 1..Len(StoredHistory) :
       StoredHistory[i] = DataPoint(workers[w].report)}

\* Both processes wrote the file, and both had read it before either
\* wrote: they read the same history.
BothWroteOverlapped ==
  /\ \A w \in Procs : workers[w].pc = "done" /\ workers[w].write = "ok"
  /\ workers[1].base = workers[2].base

\* C18: when two analyses of the project overlap, both reading the
\* history before either writes it, then once both have written, the
\* persisted history holds the record of only one of them: the history
\* they read and one record more.
C18_OverlapLosesUpdate ==
  BothWroteOverlapped =>
    /\ Cardinality(Recorded) = 1
    /\ Len(StoredHistory) = Min(Len(workers[1].base) + 1, HistoryCap)

C18_Witness ==
  /\ BothWroteOverlapped
  /\ Recorded = {2}
  /\ Len(workers[1].base) = Window
  /\ Len(StoredHistory) = Window + 1

\* The places of text where sub occurs.
Occurrences(text, sub) ==
  {i \in 1..Len(text) :
     /\ i + Len(sub) - 1 <= Len(text)
     /\ SubSeq(text, i, i + Len(sub) - 1) = sub}

RECURSIVE KeywordOccurrences(_, _)
\* The occurrences in text of the first k keywords, each keyword counted
\* for itself.
KeywordOccurrences(text, k) ==
  IF k = 0 THEN 0
  ELSE Cardinality(Occurrences(text, complexity_indicators[k]))
         + KeywordOccurrences(text, k - 1)

\* The lines of a text: one more than its line ends.
NumberOfLines(text) == 1 + Cardinality({i \in 1..Len(text) : text[i] = NewLine})

\* C19: the complexity score is round(count / number_of_lines * 100, 2),
\* count being the occurrences of the 11 keywords, each counted for
\* itself (one "elif " counts for "elif " and for "if "); it is never
\* negative, and it is 0 for a file without content and for a file that
\* cannot be read.
C19_ComplexityScore ==
  last.op = "complexity" =>
    /\ last.response >= 0
    /\ Len(complexity_indicators) = 11
    /\ source.readable =>
         Nearest(last.response, 10000 * KeywordOccurrences(source.text, 11),
                 NumberOfLines(source.text))
    /\ (~source.readable \/ source.text = << >>) => last.response = 0
    /\ (source.readable /\ source.text = LineElif) => last.response = 20000

C19_Witness ==
  /\ last.op = "complexity"
  /\ source = SourceText(Join(<<LineIf, LineElif, LineElse>>))
  /\ last.response = 13333

\* C20: a step that persists leaves the file with the history it had,
\* no record changed or moved, the run's record appended at the end and
\* the whole cut to its last 100 records, and with trends equal to
\* _calculate_trends of that history.
C20_PersistAppendsEvictsClassifies ==
  [][(last'.persisted /\ now' = now + 1) =>
       LET old == HistoryOf(_load_trend_data(trend_file))
           new == HistoryOf(_load_trend_data(trend_file'))
           dropped == Len(old) + 1 - Len(new)
       IN  /\ trend_file'.exists /\ trend_file'.parses
           /\ Len(new) = Min(Len(old) + 1, HistoryCap)
           /\ new[Len(new)] = DataPoint(last'.report)
           /\ \A i \in 1..(Len(new) - 1) : new[i] = old[i + dropped]
           /\ TrendsOf(_load_trend_data(trend_file')) = _calculate_trends(new)
    ]_vars

C20_Witness ==
  /\ last.persisted
  /\ Len(inserted) = HistoryCap + 1
  /\ StoredHistory[HistoryCap] = DataPoint(last.report)
  /\ StoredTrends.trend = "declining"

\* C26: every return of run_tests_with_coverage, True, False after an exit
\* code that is not zero and False after an exception, leaves the
\* instrumentation it started stopped, and the coverage data are saved
\* whenever the test subprocess completed, whatever its exit code.
C26_InstrumentationStoppedOnReturn ==
  last.op = "task" =>
    /\ ~last.left_running
    /\ (last.ran => last.saved)

\* C21: the trend_data of a report, and the trend of the summary made of
\* it, are those of the trend file as the analysis found it, before its
\* own record was appended: the history of the report never holds the
\* data point of the report. So a summary names a classification only
\* when more than Window records were there before it: starting with no
\* history the first Window + 1 summaries answer 'unknown', although the
\* file holds a classification once the record of summary Window + 1 is
\* written.
C21_SummaryLagsOneAnalysis ==
  [][(runs' = runs + 1 /\ ~last'.raised) =>
       LET before == _load_trend_data(trend_file)
           report == last'.report
       IN  /\ report.trend_data = before
           /\ \A i \in 1..Len(HistoryOf(report.trend_data)) :
                 HistoryOf(report.trend_data)[i] # DataPoint(report)
           /\ last'.summary.trend = SummaryTrend(before)
           /\ (Len(HistoryOf(before)) <= Window =>
                 last'.summary.trend = "unknown")
           /\ (last'.persisted /\ Len(HistoryOf(before)) = Window =>
                 /\ "trend" \in DOMAIN StoredTrends'
                 /\ last'.summary.trend = "unknown")
           /\ (Len(HistoryOf(before)) > Window =>
                 last'.summary.trend = TrendsOf(before).trend)]_vars

\* The seventh summary of a project that began with no history names a
\* classification.
C21_Witness ==
  /\ last.op = "get_coverage_summary"
  /\ ~last.raised
  /\ runs = Window + 2
  /\ Len(inserted) = Window + 2
  /\ Len(StoredHistory) = Window + 2
  /\ last.summary.trend \in {"improving", "declining", "stable"}

LabelOfSign(change) ==
  IF change > 0 THEN "improving"
  ELSE IF change < 0 THEN "declining"
  ELSE "stable"

\* C23 as claimed: in every trend result that is not empty the label
\* agrees with the sign of the reported change_percentage: "improving"
\* exactly when it is above 0, "declining" exactly when it is below 0,
\* "stable" exactly when it is 0.
C23_LabelIsSignOfChange ==
  Len(StoredHistory) > Window =>
    StoredTrends.trend = LabelOfSign(StoredTrends.change_percentage)

\* C23 amended: the label is the sign of the difference of the two means
\* before rounding, change_percentage is that difference rounded to 2
\* decimals. So a change_percentage above 0 comes with "improving", one
\* below 0 with "declining" and "stable" with a change_percentage of 0;
\* a change_percentage of 0 also comes with "improving" or "declining",
\* when the means differ by less than 0.005.
C23_LabelIsSignBeforeRounding ==
  LET h == StoredHistory
      r == SumLineCoverage(RecentByIndex(h))
      o == SumLineCoverage(OlderByIndex(h))
      nr == Len(RecentByIndex(h))
      no == Len(OlderByIndex(h))
      change == StoredTrends.change_percentage
  IN  Len(h) > Window =>
        /\ StoredTrends.trend = LabelOfSign(r * no - o * nr)
        /\ (change > 0 => StoredTrends.trend = "improving")
        /\ (change < 0 => StoredTrends.trend = "declining")
        /\ (StoredTrends.trend = "stable" => change = 0)
        /\ (change = 0 => 2 * Abs(r * no - o * nr) <= nr * no)

\* A history whose recent mean is below its older mean by less than
\* 0.005 (9 records, the older mean 88.01, the recent mean 88.008):
\* "declining" with a change_percentage of 0.
C23_Witness ==
  /\ last.op = "save"
  /\ Len(StoredHistory) > Window
  /\ StoredTrends.trend = "declining"
  /\ StoredTrends.change_percentage = 0

\* C24: every background analysis that succeeds stores its report under
\* an id that is no key of the dict of reports yet, so that no report
\* kept there is overwritten and the dict grows by one report with every
\* successful background analysis.
C24_ReportIdsAreNew ==
  [][(Len(pending') < Len(pending) /\ last'.analyzed /\ ~last'.raised) =>
       /\ last'.report_id \notin DOMAIN coverage_reports
       /\ Cardinality(DOMAIN coverage_reports') =
            Cardinality(DOMAIN coverage_reports) + 1]_vars

RECURSIVE SumFileMetric(_, _)
\* The sum of one of the counts of the report's file metrics.
SumFileMetric(file_coverage, field) ==
  IF file_coverage = << >> THEN 0
  ELSE file_coverage[1].metrics[field]
         + SumFileMetric(Tail(file_coverage), field)

\* C25: in every report the total_lines of total_metrics is the sum of the
\* total_lines of the file_coverage entries and the covered_lines the sum
\* of their covered_lines, also when a measured file was skipped in the
\* per-file list.
C25_TotalsAreSumOfFileList ==
  HasReport =>
    /\ last.report.total_metrics.total_lines =
         SumFileMetric(last.report.file_coverage, "total_lines")
    /\ last.report.total_metrics.covered_lines =
         SumFileMetric(last.report.file_coverage, "covered_lines")

\* The coroutines that have begun their analysis and not ended it.
Running == {w \in Procs : workers[w].pc \in {"analyzed", "loaded"}}

NothingBuilt(k) ==
  /\ k._llm = None
  /\ k._storage = None
  /\ \A a \in Managers : k.managers[a] = None
  /\ \A c \in Classes : k.constructed[c] = 0

\* At most one object of each class was built, the one the attribute
\* holds, and every manager holds the provider and the storage of the kit.
BuiltOnceAndShared(k) ==
  /\ \A c \in Classes : k.constructed[c] <= 1
  /\ k.constructed["LiteLLMProvider"] = (IF k._llm = None THEN 0 ELSE 1)
  /\ k.constructed["FileStorage"] = (IF k._storage = None THEN 0 ELSE 1)
  /\ \A a \in Managers :
       LET m == k.managers[a]
       IN  IF m = None
           THEN a # "_implementation_tracker" =>
                  k.constructed[ManagerClass(a)] = 0
           ELSE /\ k.constructed[ManagerClass(a)] = 1
                /\ m.cls = ManagerClass(a)
                /\ k._llm # None
                /\ m.llm = k._llm
                /\ a \notin LlmOnly => (k._storage # None /\ m.storage = k._storage)

\* C28: the constructor of SpecKit builds no provider, storage or
\* manager; over any sequence of workflow calls, sync and async, each of
\* them is built at most once, by the first call that uses it, and every
\* later call finds the same object; all managers hold the one provider
\* and the one storage of the kit.
C28_ComponentsBuiltOnce ==
  /\ (kit.result.op = "init" /\ kit.awaiting = {}) => NothingBuilt(kit)
  /\ BuiltOnceAndShared(kit)
  /\ \A call \in kit.awaiting : \E a \in Managers :
       call.manager # None /\ call.manager = kit.managers[a]
  /\ kit.result.manager # None =>
       \E a \in Managers : kit.result.manager = kit.managers[a]
  /\ \A i \in 1..Len(kit.result.called) :
       kit.result.called[i].on = kit._storage

\* Every manager a method builds is built, a coroutine stands at its
\* await, and a sync method has just used the manager built before.
C28_Witness ==
  /\ \A a \in Managers \ {"_implementation_tracker"} : kit.managers[a] # None
  /\ \A c \in Classes \ {"ImplementationTracker"} : kit.constructed[c] = 1
  /\ kit.awaiting # {}
  /\ kit.result.op = "plan"
  /\ kit.result.manager = kit.managers["_technical_planner"]

\* The storage operation that saves an artifact of the class.
SaveOperation(type) ==
  CASE type = "Constitution" -> "save_constitution"
    [] type = "Specification" -> "save_specification"
    [] type = "TechnicalPlan" -> "save_plan"
    [] type = "TaskBreakdown" -> "save_tasks"
    [] OTHER -> "none"

C30_GeneratedIdsAreTheInputs ==
  (kit.result.method \in GenerateMethods /\ kit.result.raised = NoExc) =>
    LET r == kit.result
    IN  /\ IF r.method = "generate_research"
           THEN r.value.feature_id = r.plan.feature_id
           ELSE /\ r.value.feature_id = r.specification.feature_id
                /\ r.value.feature_name = r.specification.feature_name
        /\ r.value.type = ResponseModel(r.method)
        /\ r.value = Generated(r.method, r.response, r.specification, r.plan,
                               r.value.created_at)

\* generate_data_model_async was given a specification and a plan of two
\* features and a response with an id of its own: the data model has the
\* id and the name of the specification.
C30_Witness ==
  /\ kit.result.op = "generate_data_model_async"
  /\ kit.result.raised = NoExc
  /\ kit.result.response.feature_id = "999-llm"
  /\ kit.result.specification.feature_id = "002-pay"
  /\ kit.result.plan.feature_id = "001-auth"
  /\ kit.result.value.feature_id = "002-pay"
  /\ kit.result.value.feature_name = "Payments"

====
